---------------------------- MODULE Spec2Model ----------------------------
(***************************************************************************)
(* A model of the EPIC command-line client (src/epiccli) and of its local  *)
(* web dashboard (src/epiccli_ui/app.py).                                  *)
(*                                                                         *)
(* Python values.  None is the empty tuple.  A string is a non-empty tuple *)
(* of its '.'-separated segments, so <<"p1">> is 'p1', <<"">> is '' and    *)
(* <<"https://x", "execute-api", "eu-west-2", "amazonaws", "com">> is a    *)
(* URL; str.split('.') is then the tuple itself.  A storage key is a tuple *)
(* of characters.  A dict is a sequence of [k, v] pairs with unique keys,  *)
(* in insertion order.                                                     *)
(***************************************************************************)
EXTENDS Integers, Sequences, FiniteSets, TLC

VARIABLES
    configFile,   \* ~/.epic/config: [exists, text]
    disk,         \* the <username>.json files written by create_user
    env,          \* EPIC_API_TOKEN and EPIC_ACTIVE_PROJECT of the shell
    session,      \* the dashboard's Flask session: a function of its keys
    last,         \* the last CLI command: its arguments, output, calls
    bucket,       \* the project's storage bucket: key -> content
    s3last,       \* the last dashboard storage request and its response
    s3_bucket_stats_cache,   \* the dashboard process's cache: project id -> stats
    threads,      \* the dashboard's bucket-size requests in progress, one per thread
    pin,          \* input of a pure computation under test
    pout          \* its result

vars == <<configFile, disk, env, session, last, bucket, s3last, s3_bucket_stats_cache,
         threads, pin, pout>>
cliVars == <<configFile, disk, env, session, last>>
s3Vars == <<bucket, s3last, s3_bucket_stats_cache, threads>>
pureVars == <<pin, pout>>

(***************************************************************************)
(* Python values                                                           *)
(***************************************************************************)
PyNone == <<>>

Str(s) == <<s>>

\* `if v:` for a value that is None or a string
Truthy(v) == v # PyNone /\ v # <<"">>

RECURSIVE SeqToSet(_)
SeqToSet(s) == IF s = <<>> THEN {} ELSE {Head(s)} \cup SeqToSet(Tail(s))

\* dict.get(k) on a JSON object held as a function of its keys
Get(d, k) == IF k \in DOMAIN d THEN d[k] ELSE PyNone

\* dict operations on a sequence of [k, v] pairs
DictKeys(d) == {d[i].k : i \in 1..Len(d)}

DictHas(d, key) == key \in DictKeys(d)

DictGet(d, key) == d[CHOOSE i \in 1..Len(d) : d[i].k = key].v

\* d[key] = val: replaces in place, or appends a new key
DictSet(d, key, val) ==
    IF DictHas(d, key)
    THEN [i \in 1..Len(d) |-> IF d[i].k = key THEN [k |-> key, v |-> val] ELSE d[i]]
    ELSE Append(d, [k |-> key, v |-> val])

\* Python's ==  on two dicts: same keys, same values, any order
DictEq(d1, d2) ==
    /\ DictKeys(d1) = DictKeys(d2)
    /\ \A key \in DictKeys(d1) : DictGet(d1, key) = DictGet(d2, key)

(***************************************************************************)
(* JSON (json.dump / json.load)                                            *)
(***************************************************************************)
\* a scalar as JSON text: None is the literal null, a string is quoted
JsonEnc(v) == IF v = PyNone THEN [t |-> "null"] ELSE [t |-> "string", s |-> v]

JsonDec(j) == IF j.t = "null" THEN PyNone ELSE j.s

\* a dump that leaves out the members whose value is None
JsonDumpObjSkipNull(o) == [f \in {g \in DOMAIN o : o[g] # PyNone} |-> JsonEnc(o[f])]

\* a flat object (function of its keys) as JSON text and back
JsonDumpObj(o) == [f \in DOMAIN o |-> JsonEnc(o[f])]

JsonLoadObj(text) == [f \in DOMAIN text |-> JsonDec(text[f])]

\* a dict of flat objects: the members in insertion order
JsonDump(d) == [i \in 1..Len(d) |-> [key |-> d[i].k, val |-> JsonDumpObj(d[i].v)]]

\* json.load: a repeated member name keeps its first place and its last value
RECURSIVE JsonLoad(_)
JsonLoad(text) ==
    IF text = <<>> THEN <<>>
    ELSE LET n == Len(text)
             m == text[n]
         IN DictSet(JsonLoad(SubSeq(text, 1, n - 1)), m.key, JsonLoadObj(m.val))

(***************************************************************************)
(* Config Store (src/epiccli/main.py)                                      *)
(***************************************************************************)
NoFile == [exists |-> FALSE, text |-> <<>>]

\* get_config: {} when the file does not exist
GetConfig(file) == IF ~file.exists THEN <<>> ELSE JsonLoad(file.text)

\* save_config: the file after json.dump(config)
SaveConfig(config) == [exists |-> TRUE, text |-> JsonDump(config)]


(***************************************************************************)
(* Inputs of the command-line client                                       *)
(***************************************************************************)
P1 == Str("p1")
P2 == Str("p2")
P3 == Str("p3")

\* what a project argument or EPIC_ACTIVE_PROJECT may hold
ArgNames == {PyNone, Str(""), P1, P2, P3}

\* the identity provider's bearer tokens
Tokens == {Str("TOKEN")}

TokenValues == {PyNone, Str("")} \cup Tokens

ApiUrl == <<"https://api", "execute-api", "eu-west-2", "amazonaws", "com/prod">>

LocalUrl == <<"http://localhost:8000">>

UserFile(project, user, pw, url) ==
    [project_name |-> project, username |-> user, password |-> pw,
     UserPoolClientId |-> Str("client"), UserPoolId |-> Str("pool"),
     DataBucketName |-> Str("bucket"), BatchJobQueueName |-> Str("queue"),
     EpicApiUrl |-> url]

\* the JSON files an administrator hands out or a user writes by hand
ManualUserFiles ==
    { JsonDumpObj(UserFile(P1, Str("alice"), Str("pw1"), ApiUrl)),
      JsonDumpObj(UserFile(P2, Str("bob"), PyNone, ApiUrl)),
      JsonDumpObj(UserFile(Str(""), Str("alice"), Str("pw1"), ApiUrl)),
      JsonDumpObj(UserFile(P1, Str("alice"), Str("pw1"), LocalUrl)),
      JsonDumpObj([project_name |-> P2, username |-> Str("bob")]),
      JsonDumpObj([username |-> Str("bob"), EpicApiUrl |-> ApiUrl]) }

NewUsers == {Str("dave")}

NewPasswords == {Str("pw3")}

Msg(m) == [msg |-> m, arg |-> PyNone]

MsgA(m, a) == [msg |-> m, arg |-> a]

Call(verb, path) == [verb |-> verb, path |-> path]

\* what a command that stops before its operation leaves behind
Outcome(out, net, crash, wrote) ==
    [out |-> out, net |-> net, crash |-> crash, wrote |-> wrote]

(***************************************************************************)
(* Session Resolver (src/epiccli/main.py)                                  *)
(***************************************************************************)
\* a resolver that prefers the environment variable to the argument
GetActiveProjectEnvFirst(project_name_arg, environ) ==
    IF Truthy(environ.EPIC_ACTIVE_PROJECT)
    THEN [project |-> environ.EPIC_ACTIVE_PROJECT, out |-> <<>>]
    ELSE IF Truthy(project_name_arg)
    THEN [project |-> project_name_arg, out |-> <<>>]
    ELSE [project |-> PyNone, out |-> <<Msg("Error: No project specified")>>]

\* get_active_project: the resolved name (None when none) and what it echoes
GetActiveProject(project_name_arg, environ) ==
    IF Truthy(project_name_arg)
    THEN [project |-> project_name_arg, out |-> <<>>]
    ELSE LET active_project == environ.EPIC_ACTIVE_PROJECT
         IN IF ~Truthy(active_project)
            THEN [project |-> PyNone, out |-> <<Msg("Error: No project specified")>>]
            ELSE [project |-> active_project, out |-> <<>>]

(***************************************************************************)
(* config add / config list (src/epiccli/main.py)                          *)
(***************************************************************************)
\* the entry add_config stores for a project
ProjectConfig(user_data) ==
    [user_pool_client_id |-> Get(user_data, "UserPoolClientId"),
     user_pool_id |-> Get(user_data, "UserPoolId"),
     data_bucket_name |-> Get(user_data, "DataBucketName"),
     batch_job_queue_name |-> Get(user_data, "BatchJobQueueName"),
     epic_api_url |-> Get(user_data, "EpicApiUrl"),
     username |-> Get(user_data, "username"),
     password |-> Get(user_data, "password"),
     region |-> Str(Get(user_data, "EpicApiUrl")[3])]

\* an add_config that keeps a field of the entry already stored when the
\* new file has null for it
AddConfigKeepsOldFields(text, file) ==
    LET user_data == JsonLoadObj(text)
        project_name == Get(user_data, "project_name")
        url == Get(user_data, "EpicApiUrl")
    IN IF ~Truthy(project_name)
       THEN [out |-> <<Msg("Error: The JSON file must contain a 'project_name' field.")>>,
             crash |-> "", file |-> file, cfgRead |-> FALSE]
       ELSE IF url = PyNone
       THEN [out |-> <<>>, crash |-> "AttributeError", file |-> file, cfgRead |-> TRUE]
       ELSE IF Len(url) < 3
       THEN [out |-> <<>>, crash |-> "IndexError", file |-> file, cfgRead |-> TRUE]
       ELSE LET config_data == GetConfig(file)
                project_config == ProjectConfig(user_data)
                merged == IF DictHas(config_data, project_name)
                          THEN [f \in DOMAIN project_config |->
                                   IF project_config[f] = PyNone
                                   THEN DictGet(config_data, project_name)[f]
                                   ELSE project_config[f]]
                          ELSE project_config
            IN [out |-> <<MsgA("configured successfully", project_name)>>,
                crash |-> "",
                file |-> SaveConfig(DictSet(config_data, project_name, merged)),
                cfgRead |-> TRUE]

\* add_config on the text of user_json_file: the output, the config file after
AddConfig(text, file) ==
    LET user_data == JsonLoadObj(text)
        project_name == Get(user_data, "project_name")
        url == Get(user_data, "EpicApiUrl")
    IN IF ~Truthy(project_name)
       THEN [out |-> <<Msg("Error: The JSON file must contain a 'project_name' field.")>>,
             crash |-> "", file |-> file, cfgRead |-> FALSE]
       ELSE IF url = PyNone
       THEN [out |-> <<>>, crash |-> "AttributeError", file |-> file, cfgRead |-> TRUE]
       ELSE IF Len(url) < 3
       THEN [out |-> <<>>, crash |-> "IndexError", file |-> file, cfgRead |-> TRUE]
       ELSE LET config_data == GetConfig(file)
                project_config == ProjectConfig(user_data)
            IN [out |-> <<MsgA("configured successfully", project_name)>>,
                crash |-> "",
                file |-> SaveConfig(DictSet(config_data, project_name, project_config)),
                cfgRead |-> TRUE]

\* list_config: one line per configured project
ListConfig(file) ==
    LET config == GetConfig(file)
    IN IF config = <<>>
       THEN <<Msg("No projects configured")>>
       ELSE <<Msg("Configured projects:")>>
            \o [i \in 1..Len(config) |-> MsgA("- project", config[i].k)]

(***************************************************************************)
(* HTTP responses as the requests library presents them.  A response r is  *)
(* [kind, status, shape, items]: kind "conn_error" is a transport failure  *)
(* (requests raises a RequestException and there is no response); shape    *)
(* says what response.json() gives; items is the array the body carries.   *)
(***************************************************************************)
ConnError == [kind |-> "conn_error", status |-> 0, shape |-> "none", items |-> <<>>]

Response(status, shape) ==
    [kind |-> "response", status |-> status, shape |-> shape, items |-> <<>>]

ResponseWith(status, shape, items) ==
    [kind |-> "response", status |-> status, shape |-> shape, items |-> items]

\* requests.get/post raising, or response.raise_for_status() raising
RaisesRequestException(r) == r.kind = "conn_error" \/ (r.status >= 400 /\ r.status < 600)

\* response.json() raising (requests' JSONDecodeError is a RequestException too)
NotJson(r) == r.shape = "not_json"

TokenError == <<Msg("Error: EPIC_API_TOKEN environment variable not set")>>

AdminTokenError == <<Msg("Error: Admin user not initialized")>>

DecodeError == <<Msg("Error: Failed to decode JSON response from server.")>>

NoWrite == {}

(***************************************************************************)
(* billing (src/epiccli/billing.py)                                        *)
(***************************************************************************)
GetBillingInfo(token, project_config, r) ==
    IF ~Truthy(token) THEN Outcome(TokenError, <<>>, "", NoWrite)
    ELSE LET net == <<Call("GET", "/billing/limits")>>
         IN IF RaisesRequestException(r) \/ NotJson(r)
            THEN Outcome(<<Msg("Error fetching billing information")>>, net, "", NoWrite)
            ELSE IF r.shape = "malformed"
            THEN Outcome(<<Msg("Billing Information:")>>, net, "KeyError", NoWrite)
            ELSE Outcome(<<Msg("Billing Information:"),
                           MsgA("Monthly Spend to Date", Str(r.shape))>>, net, "", NoWrite)

(***************************************************************************)
(* catalog (src/epiccli/catalog.py)                                        *)
(***************************************************************************)
ListApplications(token, project_config, r) ==
    IF ~Truthy(token) THEN Outcome(TokenError, <<>>, "", NoWrite)
    ELSE LET net == <<Call("GET", "/catalog/applications")>>
         IN IF RaisesRequestException(r) \/ NotJson(r)
            THEN Outcome(<<Msg("Error fetching applications")>>, net, "", NoWrite)
            ELSE IF r.shape = "malformed"
            THEN Outcome(<<Msg("Available Applications:")>>, net, "AttributeError", NoWrite)
            ELSE IF r.items = <<>>
            THEN Outcome(<<Msg("No applications found.")>>, net, "", NoWrite)
            ELSE Outcome(<<Msg("Available Applications:")>>
                         \o [i \in 1..Len(r.items) |-> MsgA("- application", r.items[i])],
                         net, "", NoWrite)

\* Python's < on two strings held as tuples of code points
RECURSIVE StrLess(_, _)
StrLess(a, b) ==
    IF b = <<>> THEN FALSE
    ELSE IF a = <<>> THEN TRUE
    ELSE IF Head(a) # Head(b) THEN Head(a) < Head(b)
    ELSE StrLess(Tail(a), Tail(b))

\* one step of a stable sort: x goes after every element that is not greater
RECURSIVE InsertByType(_, _)
InsertByType(sorted, x) ==
    IF sorted = <<>> THEN <<x>>
    ELSE LET n == Len(sorted)
         IN IF StrLess(x.instance_type, sorted[n].instance_type)
            THEN Append(InsertByType(SubSeq(sorted, 1, n - 1), x), sorted[n])
            ELSE Append(sorted, x)

\* the instances in the order the catalog returned them
SortedInstancesAsReturned(instances) == instances

\* sorted(instances, key=lambda i: i['instance_type'])
RECURSIVE SortedInstances(_)
SortedInstances(instances) ==
    IF instances = <<>> THEN <<>>
    ELSE LET n == Len(instances)
         IN InsertByType(SortedInstances(SubSeq(instances, 1, n - 1)), instances[n])

ListInstances(token, project_config, r) ==
    IF ~Truthy(token) THEN Outcome(TokenError, <<>>, "", NoWrite)
    ELSE LET net == <<Call("GET", "/catalog/instances")>>
         IN IF RaisesRequestException(r) \/ NotJson(r)
            THEN Outcome(<<Msg("Error fetching instance types")>>, net, "", NoWrite)
            ELSE IF r.items = <<>>
            THEN Outcome(<<Msg("No instance types found.")>>, net, "", NoWrite)
            ELSE IF r.shape = "malformed"
            THEN Outcome(<<Msg("Available Instance Types:")>>, net, "KeyError", NoWrite)
            ELSE LET sorted_instances == SortedInstances(r.items)
                 IN Outcome(<<Msg("Available Instance Types:")>>
                            \o [i \in 1..Len(sorted_instances) |->
                                   MsgA("- instance", sorted_instances[i])],
                            net, "", NoWrite)

(***************************************************************************)
(* data session keys (src/epiccli/data.py)                                 *)
(***************************************************************************)
GetDataKeys(token, project_config, r) ==
    IF ~Truthy(token) THEN Outcome(TokenError, <<>>, "", NoWrite)
    ELSE LET net == <<Call("GET", "/data/session")>>
         IN IF RaisesRequestException(r) \/ NotJson(r)
            THEN Outcome(<<Msg("Error fetching data session keys")>>, net, "", NoWrite)
            ELSE IF r.shape = "malformed"
            THEN Outcome(<<>>, net, "AttributeError", NoWrite)
            ELSE Outcome(<<Msg("export AWS_ACCESS_KEY_ID"), Msg("export AWS_SECRET_ACCESS_KEY"),
                           Msg("export AWS_SESSION_TOKEN"),
                           MsgA("export EPIC_S3_BUCKET", project_config.data_bucket_name),
                           MsgA("export AWS_REGION", project_config.region)>>,
                         net, "", NoWrite)

(***************************************************************************)
(* jobs (src/epiccli/job.py)                                               *)
(***************************************************************************)
\* the except RequestException clause the job operations share: the API's
\* error body when e.response.json() gives an object, else the exception
JobRequestError(r, what) ==
    IF r.kind = "conn_error" \/ r.shape \notin {"error", "error_detail"}
    THEN <<Msg(what)>>
    ELSE IF r.shape = "error_detail"
    THEN <<Msg("Error: <error>"), Msg("Detail: <detail>")>>
    ELSE <<Msg("Error: <error>")>>

\* a create_job that reads the job file before it looks for the token
CreateJobTokenLate(job_file, token, project_config, r) ==
    IF job_file = "missing"
    THEN Outcome(<<Msg("Error: File not found")>>, <<>>, "", NoWrite)
    ELSE IF job_file = "invalid_json"
    THEN Outcome(<<Msg("Error: Invalid JSON in file")>>, <<>>, "", NoWrite)
    ELSE LET net == <<Call("POST", "/job/")>>
         IN IF RaisesRequestException(r)
            THEN Outcome(JobRequestError(r, "Error creating job"), net, "", NoWrite)
            ELSE IF ~Truthy(token) THEN Outcome(TokenError, net, "", NoWrite)
            ELSE Outcome(<<Msg("Job created successfully:"), Msg("<job json>")>>,
                         net, "", NoWrite)

\* job_file: "ok", "invalid_json" or "missing" (removed since click saw it)
CreateJob(job_file, token, project_config, r) ==
    IF ~Truthy(token) THEN Outcome(TokenError, <<>>, "", NoWrite)
    ELSE IF job_file = "missing"
    THEN Outcome(<<Msg("Error: File not found")>>, <<>>, "", NoWrite)
    ELSE IF job_file = "invalid_json"
    THEN Outcome(<<Msg("Error: Invalid JSON in file")>>, <<>>, "", NoWrite)
    ELSE LET net == <<Call("POST", "/job/")>>
         IN IF RaisesRequestException(r)
            THEN Outcome(JobRequestError(r, "Error creating job"), net, "", NoWrite)
            ELSE IF NotJson(r)
            THEN Outcome(<<Msg("Error: Invalid JSON in file")>>, net, "", NoWrite)
            ELSE Outcome(<<Msg("Job created successfully:"), Msg("<job json>")>>,
                         net, "", NoWrite)

\* an entry of results: a JSON object (a function of its keys) or any other
\* JSON value
JobObject(o) == [isdict |-> TRUE, v |-> o]

JobScalar(x) == [isdict |-> FALSE, v |-> [json |-> x]]

\* dict.get(k, default)
GetOr(d, k, default) == IF k \in DOMAIN d THEN d[k] ELSE default

\* a job line that reads the fields without a default
JobLineNoDefault(job) ==
    IF job.isdict
    THEN MsgA("ID | Name | Status",
              <<Get(job.v, "uuid"), Get(job.v, "name"), Get(job.v, "status")>>)
    ELSE MsgA("Warning: Received malformed job entry", job.v)

\* one line of the job listing
JobLine(job) ==
    IF job.isdict
    THEN MsgA("ID | Name | Status",
              <<GetOr(job.v, "uuid", "N/A"), GetOr(job.v, "name", "N/A"),
                GetOr(job.v, "status", "N/A")>>)
    ELSE MsgA("Warning: Received malformed job entry", job.v)

ListJobs(token, project_config, r) ==
    IF ~Truthy(token) THEN Outcome(TokenError, <<>>, "", NoWrite)
    ELSE LET net == <<Call("GET", "/job/")>>
         IN IF RaisesRequestException(r)
            THEN Outcome(JobRequestError(r, "Error listing jobs"), net, "", NoWrite)
            ELSE IF NotJson(r)
            THEN Outcome(<<Msg("Error listing jobs")>>, net, "", NoWrite)
            ELSE IF r.shape = "malformed"
            THEN Outcome(<<>>, net, "AttributeError", NoWrite)
            ELSE IF r.items = <<>>
            THEN Outcome(<<Msg("No jobs found.")>>, net, "", NoWrite)
            ELSE Outcome(<<Msg("Current Jobs:")>>
                         \o [i \in 1..Len(r.items) |-> JobLine(r.items[i])],
                         net, "", NoWrite)

GetJob(job_id, token, project_config, r) ==
    IF ~Truthy(token) THEN Outcome(TokenError, <<>>, "", NoWrite)
    ELSE LET net == <<Call("GET", "/job/{job_id}/")>>
         IN IF RaisesRequestException(r)
            THEN Outcome(JobRequestError(r, "Error getting job details"), net, "", NoWrite)
            ELSE IF NotJson(r)
            THEN Outcome(<<Msg("Error getting job details")>>, net, "", NoWrite)
            ELSE Outcome(<<Msg("Job Details:"), Msg("<job json>")>>, net, "", NoWrite)

\* a cancel_job that takes every status below 400 for a cancelled job
CancelJobAnySuccess(job_id, token, project_config, r) ==
    IF ~Truthy(token) THEN Outcome(TokenError, <<>>, "", NoWrite)
    ELSE LET net == <<Call("POST", "/job/{job_id}/cancel/")>>
         IN IF RaisesRequestException(r)
            THEN Outcome(JobRequestError(r, "Error canceling job"), net, "", NoWrite)
            ELSE Outcome(<<Msg("Job cancelled successfully.")>>, net, "", NoWrite)

CancelJob(job_id, token, project_config, r) ==
    IF ~Truthy(token) THEN Outcome(TokenError, <<>>, "", NoWrite)
    ELSE LET net == <<Call("POST", "/job/{job_id}/cancel/")>>
         IN IF RaisesRequestException(r)
            THEN Outcome(JobRequestError(r, "Error canceling job"), net, "", NoWrite)
            ELSE IF r.status = 204
            THEN Outcome(<<Msg("Job cancelled successfully.")>>, net, "", NoWrite)
            ELSE Outcome(<<MsgA("Received status code when canceling job.", <<r.status>>),
                           Msg("<response.text>")>>, net, "", NoWrite)

\* a tail_job that takes a failed request for a job without logs
TailJobQuietOnError(job_id, token, project_config, r) ==
    IF ~Truthy(token) THEN Outcome(TokenError, <<>>, "", NoWrite)
    ELSE LET net == <<Call("GET", "/job/{job_id}/tail/")>>
         IN IF RaisesRequestException(r) \/ NotJson(r)
            THEN Outcome(<<Msg("No logs found for job")>>, net, "", NoWrite)
            ELSE IF r.shape = "malformed"
            THEN Outcome(<<>>, net, "AttributeError", NoWrite)
            ELSE IF r.items = <<>>
            THEN Outcome(<<Msg("No logs found for job")>>, net, "", NoWrite)
            ELSE Outcome(<<Msg("Logs for job:")>>
                         \o [i \in 1..Len(r.items) |-> MsgA("[timestamp] message", r.items[i])],
                         net, "", NoWrite)

\* a log event is [timestamp, message]
TailJob(job_id, token, project_config, r) ==
    IF ~Truthy(token) THEN Outcome(TokenError, <<>>, "", NoWrite)
    ELSE LET net == <<Call("GET", "/job/{job_id}/tail/")>>
         IN IF RaisesRequestException(r)
            THEN Outcome(JobRequestError(r, "Error getting job logs"), net, "", NoWrite)
            ELSE IF NotJson(r)
            THEN Outcome(<<Msg("Error getting job logs")>>, net, "", NoWrite)
            ELSE IF r.shape = "malformed"
            THEN Outcome(<<>>, net, "AttributeError", NoWrite)
            ELSE IF r.items = <<>>
            THEN Outcome(<<Msg("No logs found for job")>>, net, "", NoWrite)
            ELSE Outcome(<<Msg("Logs for job:")>>
                         \o [i \in 1..Len(r.items) |-> MsgA("[timestamp] message", r.items[i])],
                         net, "", NoWrite)

(***************************************************************************)
(* projects (src/epiccli/project.py)                                       *)
(***************************************************************************)
\* the loop over projects['results']: items are the listed project ids
ProjectFound(items, project_name) == \E i \in 1..Len(items) : items[i] = project_name

GetProjectDetails(project_name, token, project_config, r1, r2) ==
    IF ~Truthy(token) THEN Outcome(TokenError, <<>>, "", NoWrite)
    ELSE LET list == <<Call("GET", "/projects")>>
             both == <<Call("GET", "/projects"), Call("GET", "/projects/{project_name}")>>
         IN IF RaisesRequestException(r1) \/ NotJson(r1)
            THEN Outcome(<<Msg("Error fetching project details")>>, list, "", NoWrite)
            ELSE IF r1.shape = "malformed"
            THEN Outcome(<<>>, list, "KeyError", NoWrite)
            ELSE IF ~ProjectFound(r1.items, project_name)
            THEN Outcome(<<Msg("Error: Project not found on the server.")>>, list, "", NoWrite)
            ELSE IF RaisesRequestException(r2) \/ NotJson(r2)
            THEN Outcome(<<Msg("Error fetching project details")>>, both, "", NoWrite)
            ELSE IF r2.shape = "malformed"
            THEN Outcome(<<>>, both, "AttributeError", NoWrite)
            ELSE Outcome(<<Msg("Project ID"), Msg("Description"), Msg("Spend Limit")>>,
                         both, "", NoWrite)

\* an update that sends the PATCH whether or not the list names the project
UpdateSpendLimitUnmatched(project_name, limit, token, project_config, r1, r2) ==
    IF ~Truthy(token) THEN Outcome(TokenError, <<>>, "", NoWrite)
    ELSE LET list == <<Call("GET", "/projects")>>
             both == <<Call("GET", "/projects"), Call("PATCH", "/projects/{project_name}")>>
         IN IF RaisesRequestException(r1) \/ NotJson(r1)
            THEN Outcome(<<Msg("Error updating spend limit")>>, list, "", NoWrite)
            ELSE IF r1.shape = "malformed"
            THEN Outcome(<<>>, list, "KeyError", NoWrite)
            ELSE IF RaisesRequestException(r2)
            THEN Outcome(<<Msg("Error updating spend limit")>>, both, "", NoWrite)
            ELSE Outcome(<<MsgA("Successfully updated spend limit", <<limit>>)>>,
                         both, "", NoWrite)

UpdateSpendLimit(project_name, limit, token, project_config, r1, r2) ==
    IF ~Truthy(token) THEN Outcome(TokenError, <<>>, "", NoWrite)
    ELSE LET list == <<Call("GET", "/projects")>>
             both == <<Call("GET", "/projects"), Call("PATCH", "/projects/{project_name}")>>
         IN IF RaisesRequestException(r1) \/ NotJson(r1)
            THEN Outcome(<<Msg("Error updating spend limit")>>, list, "", NoWrite)
            ELSE IF r1.shape = "malformed"
            THEN Outcome(<<>>, list, "KeyError", NoWrite)
            ELSE IF ~ProjectFound(r1.items, project_name)
            THEN Outcome(<<Msg("Error: Project not found on the server.")>>, list, "", NoWrite)
            ELSE IF RaisesRequestException(r2)
            THEN Outcome(<<Msg("Error updating spend limit")>>, both, "", NoWrite)
            ELSE Outcome(<<MsgA("Successfully updated spend limit", <<limit>>)>>,
                         both, "", NoWrite)

(***************************************************************************)
(* users (src/epiccli/user.py)                                             *)
(***************************************************************************)
\* the file create_user writes for the new user
NewUserJson(username, password, project_config, project_name) ==
    [project_name |-> project_name, username |-> username, password |-> password,
     UserPoolClientId |-> project_config.user_pool_client_id,
     UserPoolId |-> project_config.user_pool_id,
     DataBucketName |-> project_config.data_bucket_name,
     BatchJobQueueName |-> project_config.batch_job_queue_name,
     EpicApiUrl |-> project_config.epic_api_url]

\* a create_user that puts the administrator's token into the new user's file
CreateUserTokenInFile(username, email, password, token, project_config, project_name, r) ==
    IF ~Truthy(token) THEN Outcome(AdminTokenError, <<>>, "", NoWrite)
    ELSE IF r.kind = "conn_error" \/ r.status # 201
    THEN Outcome(<<Msg("Creating user via API..."), Msg("Error creating user")>>,
                 <<Call("POST", "/users")>>, "", NoWrite)
    ELSE Outcome(<<Msg("Creating user via API..."), Msg("User created successfully."),
                   Msg("Configuration file has been generated.")>>,
                 <<Call("POST", "/users")>>, "",
                 {[name |-> username,
                   text |-> JsonDumpObj([project_name |-> project_name,
                                         username |-> username, password |-> password,
                                         api_token |-> token,
                                         EpicApiUrl |-> project_config.epic_api_url])]})

CreateUser(username, email, password, token, project_config, project_name, r) ==
    IF ~Truthy(token) THEN Outcome(AdminTokenError, <<>>, "", NoWrite)
    ELSE LET net == <<Call("POST", "/users")>>
             creating == <<Msg("Creating user via API...")>>
         IN IF r.kind = "conn_error"
            THEN Outcome(creating \o <<Msg("Error creating user")>>, net, "", NoWrite)
            ELSE IF r.status = 201
            THEN Outcome(creating \o <<Msg("User created successfully."),
                                       Msg("Configuration file has been generated."),
                                       Msg("Use it to configure the EPIC CLI")>>,
                         net, "",
                         {[name |-> username,
                           text |-> JsonDumpObj(NewUserJson(username, password,
                                                            project_config, project_name))]})
            ELSE IF r.status = 400
            THEN IF NotJson(r)
                 THEN Outcome(creating \o <<Msg("Error creating user")>>, net, "", NoWrite)
                 ELSE Outcome(creating \o <<Msg("Error: <validation message>")>>, net, "", NoWrite)
            ELSE IF r.status = 409
            THEN Outcome(creating \o <<Msg("User may already exist.")>>, net, "", NoWrite)
            ELSE IF RaisesRequestException(r)
            THEN Outcome(creating \o <<Msg("Error creating user")>>, net, "", NoWrite)
            ELSE Outcome(creating, net, "", NoWrite)

DeleteUser(username, confirm, token, project_config, r) ==
    IF ~Truthy(token) THEN Outcome(AdminTokenError, <<>>, "", NoWrite)
    ELSE IF ~confirm THEN Outcome(<<>>, <<>>, "", NoWrite)
    ELSE LET net == <<Call("DELETE", "/users/{username}")>>
             deleting == <<Msg("Deleting user via API...")>>
         IN IF r.kind = "conn_error"
            THEN Outcome(deleting \o <<Msg("Error deleting user")>>, net, "", NoWrite)
            ELSE IF r.status = 204
            THEN Outcome(deleting \o <<Msg("User deleted successfully.")>>, net, "", NoWrite)
            ELSE IF r.status = 404
            THEN Outcome(deleting \o <<Msg("User not found.")>>, net, "", NoWrite)
            ELSE IF RaisesRequestException(r)
            THEN Outcome(deleting \o <<Msg("Error deleting user")>>, net, "", NoWrite)
            ELSE Outcome(deleting, net, "", NoWrite)

(***************************************************************************)
(* init (src/epiccli/main.py) and the identity provider                    *)
(***************************************************************************)
\* what client.initiate_auth does: a token, a ClientError by its code, a
\* response without AuthenticationResult (a challenge), or no connection
IdpOutcomes ==
    {[result |-> "ok", token |-> t] : t \in Tokens}
    \cup {[result |-> x, token |-> PyNone] :
            x \in {"NotAuthorizedException", "OtherClientError", "challenge", "no_connection"}}

\* an init that names the active project even when authentication is refused
initAssignsOnFailure(project_name, typed_password, is_windows, idp, file) ==
    LET config == GetConfig(file)
    IN IF ~DictHas(config, project_name)
       THEN Outcome(<<MsgA("Error: Project not found.", project_name)>>, <<>>, "", NoWrite)
       ELSE LET project_config == DictGet(config, project_name)
                password == IF ~Truthy(project_config.password)
                            THEN typed_password ELSE project_config.password
                net == <<Call("IDP", "initiate_auth")>>
            IN IF idp.result = "NotAuthorizedException"
               THEN Outcome(<<Msg("Authentication failed: Invalid username or password."),
                              MsgA("export EPIC_ACTIVE_PROJECT=", project_name)>>,
                            net, "", NoWrite)
               ELSE IF idp.result = "OtherClientError"
               THEN Outcome(<<Msg("An unexpected error occurred")>>, net, "", NoWrite)
               ELSE IF idp.result = "challenge"
               THEN Outcome(<<>>, net, "KeyError", NoWrite)
               ELSE IF idp.result = "no_connection"
               THEN Outcome(<<>>, net, "EndpointConnectionError", NoWrite)
               ELSE LET id_token == idp.token
                    IN Outcome(<<Msg("# Authentication successful!"),
                                 Msg("# To configure your current session"),
                                 MsgA(IF is_windows THEN "# epic init | Invoke-Expression"
                                      ELSE "# eval $(epic init)", project_name),
                                 MsgA(IF is_windows THEN "$env:EPIC_API_TOKEN="
                                      ELSE "export EPIC_API_TOKEN=", id_token),
                                 MsgA(IF is_windows THEN "$env:EPIC_ACTIVE_PROJECT="
                                      ELSE "export EPIC_ACTIVE_PROJECT=", project_name),
                                 Msg("# Note: These variables are only set for the current shell session."),
                                 Msg("# You will need to run epic init again for new sessions.")>>,
                               net, "", NoWrite)

init(project_name, typed_password, is_windows, idp, file) ==
    LET config == GetConfig(file)
    IN IF ~DictHas(config, project_name)
       THEN Outcome(<<MsgA("Error: Project not found.", project_name)>>, <<>>, "", NoWrite)
       ELSE LET project_config == DictGet(config, project_name)
                password == IF ~Truthy(project_config.password)
                            THEN typed_password ELSE project_config.password
                net == <<Call("IDP", "initiate_auth")>>
            IN IF idp.result = "NotAuthorizedException"
               THEN Outcome(<<Msg("Authentication failed: Invalid username or password.")>>,
                            net, "", NoWrite)
               ELSE IF idp.result = "OtherClientError"
               THEN Outcome(<<Msg("An unexpected error occurred")>>, net, "", NoWrite)
               ELSE IF idp.result = "challenge"
               THEN Outcome(<<>>, net, "KeyError", NoWrite)
               ELSE IF idp.result = "no_connection"
               THEN Outcome(<<>>, net, "EndpointConnectionError", NoWrite)
               ELSE LET id_token == idp.token
                    IN Outcome(<<Msg("# Authentication successful!"),
                                 Msg("# To configure your current session"),
                                 MsgA(IF is_windows THEN "# epic init | Invoke-Expression"
                                      ELSE "# eval $(epic init)", project_name),
                                 MsgA(IF is_windows THEN "$env:EPIC_API_TOKEN="
                                      ELSE "export EPIC_API_TOKEN=", id_token),
                                 MsgA(IF is_windows THEN "$env:EPIC_ACTIVE_PROJECT="
                                      ELSE "export EPIC_ACTIVE_PROJECT=", project_name),
                                 Msg("# Note: These variables are only set for the current shell session."),
                                 Msg("# You will need to run epic init again for new sessions.")>>,
                               net, "", NoWrite)

(***************************************************************************)
(* dashboard login (src/epiccli_ui/app.py)                                 *)
(***************************************************************************)
NoSession == <<>>

SessionSet(sess, key, val) ==
    [x \in DOMAIN sess \cup {key} |-> IF x = key THEN val ELSE sess[x]]

\* app.get_config(project_name): None without a file or without the project
AppGetConfig(file, project_name) ==
    IF ~file.exists THEN PyNone
    ELSE LET config == JsonLoad(file.text)
         IN IF DictHas(config, project_name) THEN DictGet(config, project_name) ELSE PyNone

\* a login that names the project in the session before it authenticates
select_project_ProjectFirst(project_name, idp, file, sess) ==
    LET project_config == AppGetConfig(file, project_name)
    IN IF project_config = PyNone
       THEN [session |-> sess, out |-> <<Msg("redirect index")>>, net |-> <<>>]
       ELSE IF project_config.password = PyNone
       THEN [session |-> sess, out |-> <<Msg("redirect index")>>, net |-> <<>>]
       ELSE IF idp.result # "ok"
       THEN [session |-> SessionSet(SessionSet(sess, "project_id", project_name),
                                    "project_name", project_name),
             out |-> <<Msg("redirect index")>>,
             net |-> <<Call("IDP", "initiate_auth")>>]
       ELSE [session |->
                SessionSet(SessionSet(SessionSet(SessionSet(SessionSet(sess,
                    "api_token", idp.token),
                    "api_url", project_config.epic_api_url),
                    "project_id", project_name),
                    "project_name", project_name),
                    "username", project_config.username),
             out |-> <<Msg("redirect dashboard")>>,
             net |-> <<Call("IDP", "initiate_auth")>>]

\* select_project: the session after, the redirect, the calls
select_project(project_name, idp, file, sess) ==
    LET project_config == AppGetConfig(file, project_name)
    IN IF project_config = PyNone
       THEN [session |-> sess, out |-> <<Msg("redirect index")>>, net |-> <<>>]
       ELSE IF project_config.password = PyNone
       THEN [session |-> sess, out |-> <<Msg("redirect index")>>, net |-> <<>>]
       ELSE IF idp.result # "ok"
       THEN [session |-> sess, out |-> <<Msg("redirect index")>>,
             net |-> <<Call("IDP", "initiate_auth")>>]
       ELSE [session |->
                SessionSet(SessionSet(SessionSet(SessionSet(SessionSet(sess,
                    "api_token", idp.token),
                    "api_url", project_config.epic_api_url),
                    "project_id", project_name),
                    "project_name", project_name),
                    "username", project_config.username),
             out |-> <<Msg("redirect dashboard")>>,
             net |-> <<Call("IDP", "initiate_auth")>>]

(***************************************************************************)
(* The commands of the CLI (src/epiccli/main.py)                           *)
(***************************************************************************)
Idle == [cmd |-> "none", arg |-> PyNone, project |-> PyNone, cfgRead |-> FALSE,
         op |-> FALSE, out |-> <<>>, net |-> <<>>, answers |-> <<>>, crash |-> "",
         wrote |-> NoWrite]

\* a lookup that only checks that some project is configured
LookupProjectAnyConfigured(project_arg, environ, file) ==
    LET resolved == GetActiveProject(project_arg, environ)
        project_name == resolved.project
        config == GetConfig(file)
    IN IF ~Truthy(project_name)
       THEN [project |-> PyNone, cfgRead |-> FALSE, found |-> FALSE,
             out |-> resolved.out, project_config |-> PyNone]
       ELSE IF config = <<>>
       THEN [project |-> project_name, cfgRead |-> TRUE, found |-> FALSE,
             out |-> <<MsgA("Error: Project configuration not found.", project_name)>>,
             project_config |-> PyNone]
       ELSE [project |-> project_name, cfgRead |-> TRUE, found |-> TRUE, out |-> <<>>,
             project_config |-> IF DictHas(config, project_name)
                                THEN DictGet(config, project_name) ELSE config[1].v]

\* the prologue of a project-scoped command: resolve the project, look it up
LookupProject(project_arg, environ, file) ==
    LET resolved == GetActiveProject(project_arg, environ)
        project_name == resolved.project
    IN IF ~Truthy(project_name)
       THEN [project |-> PyNone, cfgRead |-> FALSE, found |-> FALSE,
             out |-> resolved.out, project_config |-> PyNone]
       ELSE LET config == GetConfig(file)
            IN IF ~DictHas(config, project_name)
               THEN [project |-> project_name, cfgRead |-> TRUE, found |-> FALSE,
                     out |-> <<MsgA("Error: Project configuration not found.", project_name)>>,
                     project_config |-> PyNone]
               ELSE [project |-> project_name, cfgRead |-> TRUE, found |-> TRUE,
                     out |-> <<>>, project_config |-> DictGet(config, project_name)]

\* a project-scoped command: it returns after a failed lookup, and otherwise
\* does what its operation o does on the project's configuration; answers are
\* what the API answers to the operation's calls, kept for the calls made
ProjectCommand(cmd, project_arg, lookup, o, answers) ==
    IF ~lookup.found
    THEN [cmd |-> cmd, arg |-> project_arg, project |-> lookup.project,
          cfgRead |-> lookup.cfgRead, op |-> FALSE, out |-> lookup.out, net |-> <<>>,
          answers |-> <<>>, crash |-> "", wrote |-> NoWrite]
    ELSE [cmd |-> cmd, arg |-> project_arg, project |-> lookup.project,
          cfgRead |-> lookup.cfgRead, op |-> TRUE, out |-> o.out, net |-> o.net,
          answers |-> SubSeq(answers, 1, Len(o.net)), crash |-> o.crash,
          wrote |-> o.wrote]

\* the files on disk after a command wrote some
DiskAfter(files, wrote) ==
    {f \in files : \A w \in wrote : w.name # f.name} \cup wrote

(***************************************************************************)
(* What the API may answer                                                 *)
(***************************************************************************)
ErrorResponses == {ConnError, Response(500, "error"), Response(400, "error_detail"),
                   Response(200, "not_json")}

\* instance types are named by tuples of code points
Instance(name, vcpus) == [instance_type |-> name, vcpus |-> vcpus, memory_gb |-> 2 * vcpus]

CliInstanceLists == {<<>>, <<Instance(<<2>>, 2), Instance(<<1, 2>>, 4), Instance(<<1>>, 2)>>}

CliJobLists == {<<>>, <<JobObject([uuid |-> "abc", name |-> "job1", status |-> "RUNNING"]),
                        JobScalar("oops"),
                        JobObject([name |-> "job2"])>>}

CliLogLists == {<<>>, <<[timestamp |-> 1, message |-> "m1"],
                        [timestamp |-> 2, message |-> "m2"]>>}

CliProjectLists == {<<>>, <<P2, P1>>, <<P3>>}

BillingResponses ==
    ErrorResponses \cup {Response(200, "spend"), Response(200, "N/A"), Response(200, "malformed")}

ApplicationResponses ==
    ErrorResponses \cup {Response(200, "malformed"), Response(200, "ok"),
                         ResponseWith(200, "ok", <<"app1", "app2">>)}

InstanceResponses ==
    ErrorResponses \cup {ResponseWith(200, "ok", l) : l \in CliInstanceLists}
    \cup {ResponseWith(200, "malformed", <<Instance(<<1>>, 2)>>)}

DataResponses == ErrorResponses \cup {Response(200, "ok"), Response(200, "malformed")}

JobResponses == ErrorResponses \cup {Response(200, "ok"), Response(201, "ok")}

JobListResponses ==
    ErrorResponses \cup {ResponseWith(200, "ok", l) : l \in CliJobLists}
    \cup {Response(200, "malformed")}

CancelResponses == ErrorResponses \cup {Response(204, "ok"), Response(200, "ok")}

TailResponses ==
    ErrorResponses \cup {ResponseWith(200, "ok", l) : l \in CliLogLists}
    \cup {Response(200, "malformed"), Response(200, "no_logs_member")}

ProjectListResponses ==
    {ConnError, Response(500, "error"), Response(200, "not_json"), Response(200, "malformed")}
    \cup {ResponseWith(200, "ok", l) : l \in CliProjectLists}

ProjectResponses ==
    {ConnError, Response(404, "error"), Response(200, "not_json"), Response(200, "ok"),
     Response(200, "malformed")}

CreateUserResponses ==
    {ConnError, Response(201, "ok"), Response(400, "error"), Response(400, "not_json"),
     Response(409, "error"), Response(500, "error"), Response(200, "ok")}

DeleteUserResponses ==
    {ConnError, Response(204, "ok"), Response(404, "error"), Response(403, "error"),
     Response(200, "ok")}

(***************************************************************************)
(* The command-line client and the dashboard login as a state machine      *)
(***************************************************************************)
IdleS3 == [op |-> "none"]

IdlePure == [kind |-> "none"]

CliInit ==
    /\ configFile = NoFile
    /\ disk = {}
    /\ env \in [EPIC_API_TOKEN : TokenValues, EPIC_ACTIVE_PROJECT : {PyNone, Str(""), P1, P3}]
    /\ session = NoSession
    /\ last = Idle
    /\ bucket = <<>>
    /\ s3last = IdleS3
    /\ s3_bucket_stats_cache = <<>>
    /\ threads = <<>>
    /\ pin = IdlePure
    /\ pout = IdlePure

\* one command runs at a time, each in a process of its own
Ran(result) ==
    /\ last = Idle
    /\ last' = result
    /\ disk' = DiskAfter(disk, result.wrote)
    /\ UNCHANGED <<configFile, env, session, s3Vars, pureVars>>

ConfigAdd ==
    \E text \in ManualUserFiles \cup {f.text : f \in disk} :
        LET o == AddConfig(text, configFile)
        IN /\ last = Idle
           /\ configFile' = o.file
           /\ last' = [Idle EXCEPT !.cmd = "config add", !.cfgRead = o.cfgRead,
                                   !.out = o.out, !.crash = o.crash]
           /\ UNCHANGED <<disk, env, session, s3Vars, pureVars>>

ConfigList ==
    Ran([Idle EXCEPT !.cmd = "config list", !.cfgRead = TRUE, !.out = ListConfig(configFile)])

InitCommand ==
    \E project_name \in ArgNames \ {PyNone}, is_windows \in BOOLEAN, idp \in IdpOutcomes :
        LET o == init(project_name, Str("typed"), is_windows, idp, configFile)
        IN Ran([Idle EXCEPT !.cmd = "init", !.arg = project_name, !.project = project_name,
                            !.cfgRead = TRUE, !.out = o.out, !.net = o.net,
                            !.answers = SubSeq(<<idp>>, 1, Len(o.net)),
                            !.crash = o.crash])

\* eval "$(epic init <project>)": the shell applies the printed assignments
ShellEval ==
    /\ last.cmd = "init"
    /\ Len(last.out) = 7
    /\ env' = [EPIC_API_TOKEN |-> last.out[4].arg, EPIC_ACTIVE_PROJECT |-> last.out[5].arg]
    /\ last' = Idle
    /\ UNCHANGED <<configFile, disk, session, s3Vars, pureVars>>

\* the command's process ends and the shell prompts again
Exit ==
    /\ last # Idle
    /\ last' = Idle
    /\ UNCHANGED <<configFile, disk, env, session, s3Vars, pureVars>>

SelectProject ==
    \E project_name \in {P1, P2, P3}, idp \in IdpOutcomes :
        LET o == select_project(project_name, idp, configFile, session)
        IN /\ last = Idle
           /\ session' = o.session
           /\ last' = [Idle EXCEPT !.cmd = "select_project", !.arg = project_name,
                                   !.cfgRead = TRUE, !.out = o.out, !.net = o.net,
                                   !.answers = SubSeq(<<idp>>, 1, Len(o.net))]
           /\ UNCHANGED <<configFile, disk, env, s3Vars, pureVars>>

UserCreate ==
    \E a \in ArgNames, u \in NewUsers, pw \in NewPasswords, r \in CreateUserResponses :
        LET lk == LookupProject(a, env, configFile)
        IN Ran(ProjectCommand("user create", a, lk,
                 CreateUser(u, Str("mail"), pw, env.EPIC_API_TOKEN, lk.project_config, lk.project, r), <<r>>))

UserDelete ==
    \E a \in ArgNames, confirm \in BOOLEAN, r \in DeleteUserResponses :
        LET lk == LookupProject(a, env, configFile)
        IN Ran(ProjectCommand("user delete", a, lk,
                 DeleteUser(Str("dave"), confirm, env.EPIC_API_TOKEN, lk.project_config, r), <<r>>))

ProjectGet ==
    \E a \in ArgNames, r1 \in ProjectListResponses, r2 \in ProjectResponses :
        LET lk == LookupProject(a, env, configFile)
        IN Ran(ProjectCommand("project get", a, lk,
                 GetProjectDetails(lk.project, env.EPIC_API_TOKEN, lk.project_config, r1, r2), <<r1, r2>>))

ProjectUpdateSpend ==
    \E a \in ArgNames, r1 \in ProjectListResponses, r2 \in ProjectResponses :
        LET lk == LookupProject(a, env, configFile)
        IN Ran(ProjectCommand("project update-spend", a, lk,
                 UpdateSpendLimit(lk.project, 100, env.EPIC_API_TOKEN, lk.project_config, r1, r2), <<r1, r2>>))

Billing ==
    \E a \in ArgNames, r \in BillingResponses :
        LET lk == LookupProject(a, env, configFile)
        IN Ran(ProjectCommand("billing", a, lk,
                 GetBillingInfo(env.EPIC_API_TOKEN, lk.project_config, r), <<r>>))

Keys ==
    \E a \in ArgNames, r \in DataResponses :
        LET lk == LookupProject(a, env, configFile)
        IN Ran(ProjectCommand("keys", a, lk,
                 GetDataKeys(env.EPIC_API_TOKEN, lk.project_config, r), <<r>>))

CatalogListApplications ==
    \E a \in ArgNames, r \in ApplicationResponses :
        LET lk == LookupProject(a, env, configFile)
        IN Ran(ProjectCommand("catalog list-applications", a, lk,
                 ListApplications(env.EPIC_API_TOKEN, lk.project_config, r), <<r>>))

CatalogListInstances ==
    \E a \in ArgNames, r \in InstanceResponses :
        LET lk == LookupProject(a, env, configFile)
        IN Ran(ProjectCommand("catalog list-instances", a, lk,
                 ListInstances(env.EPIC_API_TOKEN, lk.project_config, r), <<r>>))

JobCreate ==
    \E a \in ArgNames, job_file \in {"ok", "invalid_json", "missing"}, r \in JobResponses :
        LET lk == LookupProject(a, env, configFile)
        IN Ran(ProjectCommand("job create", a, lk,
                 CreateJob(job_file, env.EPIC_API_TOKEN, lk.project_config, r), <<r>>))

JobList ==
    \E a \in ArgNames, r \in JobListResponses :
        LET lk == LookupProject(a, env, configFile)
        IN Ran(ProjectCommand("job list", a, lk,
                 ListJobs(env.EPIC_API_TOKEN, lk.project_config, r), <<r>>))

JobGet ==
    \E a \in ArgNames, r \in JobResponses :
        LET lk == LookupProject(a, env, configFile)
        IN Ran(ProjectCommand("job get", a, lk,
                 GetJob("id", env.EPIC_API_TOKEN, lk.project_config, r), <<r>>))

JobCancel ==
    \E a \in ArgNames, r \in CancelResponses :
        LET lk == LookupProject(a, env, configFile)
        IN Ran(ProjectCommand("job cancel", a, lk,
                 CancelJob("id", env.EPIC_API_TOKEN, lk.project_config, r), <<r>>))

JobTail ==
    \E a \in ArgNames, r \in TailResponses :
        LET lk == LookupProject(a, env, configFile)
        IN Ran(ProjectCommand("job tail", a, lk,
                 TailJob("id", env.EPIC_API_TOKEN, lk.project_config, r), <<r>>))

Next ==
    \/ ConfigAdd
    \/ ConfigList
    \/ InitCommand
    \/ ShellEval
    \/ Exit
    \/ SelectProject
    \/ UserCreate
    \/ UserDelete
    \/ ProjectGet
    \/ ProjectUpdateSpend
    \/ Billing
    \/ Keys
    \/ CatalogListApplications
    \/ CatalogListInstances
    \/ JobCreate
    \/ JobList
    \/ JobGet
    \/ JobCancel
    \/ JobTail

Spec == CliInit /\ [][Next]_vars

(***************************************************************************)
(* Object storage as the dashboard uses it (src/epiccli_ui/app.py).  A key *)
(* is a tuple of code points; a missing or empty request field is <<>>.    *)
(* The bucket maps each key to its content.  list_objects_v2 answers in    *)
(* ascending key order, a page at a time, each page read from the bucket   *)
(* as it is when the page is requested.                                    *)
(***************************************************************************)
Slash == 47

BatchSize == 1000

PageSize == 2

MaxPages == 4

MaxFailAt == 7

Min(a, b) == IF a <= b THEN a ELSE b

Take(s, n) == SubSeq(s, 1, Min(n, Len(s)))

\* str.startswith
StartsWith(key, prefix) ==
    Len(prefix) <= Len(key) /\ SubSeq(key, 1, Len(prefix)) = prefix

\* str.endswith('/')
EndsWithSlash(prefix) == prefix # <<>> /\ prefix[Len(prefix)] = Slash

\* if not prefix.endswith('/'): prefix += '/'
WithSlash(prefix) == IF EndsWithSlash(prefix) THEN prefix ELSE Append(prefix, Slash)

MinKey(keys) == CHOOSE k \in keys : \A j \in keys : j = k \/ StrLess(k, j)

RECURSIVE SortedKeys(_)
SortedKeys(keys) ==
    IF keys = {} THEN <<>>
    ELSE LET k == MinKey(keys) IN <<k>> \o SortedKeys(keys \ {k})

\* the keys a listing with Prefix=prefix still has to return after `after`
KeysAfter(b, prefix, after) ==
    SortedKeys({k \in DOMAIN b : StartsWith(k, prefix) /\ (after = <<>> \/ StrLess(after, k))})

\* copy_object / delete_objects on the bucket
Put(b, key, content) == [k \in DOMAIN b \cup {key} |-> IF k = key THEN content ELSE b[k]]

Remove(b, keys) == [k \in DOMAIN b \ keys |-> b[k]]

\* batches whose slices stop one key short
RECURSIVE DeleteBatchesShortSlice(_, _)
DeleteBatchesShortSlice(objects_to_delete, i) ==
    IF i >= Len(objects_to_delete) THEN <<>>
    ELSE <<SubSeq(objects_to_delete, i + 1, Min(i + BatchSize - 1, Len(objects_to_delete)))>>
         \o DeleteBatchesShortSlice(objects_to_delete, i + BatchSize)

\* the loop `for i in range(0, len(objects_to_delete), 1000)`: the slices
\* objects_to_delete[i:i+1000] from index i on
RECURSIVE DeleteBatches(_, _)
DeleteBatches(objects_to_delete, i) ==
    IF i >= Len(objects_to_delete) THEN <<>>
    ELSE <<SubSeq(objects_to_delete, i + 1, Min(i + BatchSize, Len(objects_to_delete)))>>
         \o DeleteBatches(objects_to_delete, i + BatchSize)

\* a request in progress: the bucket, the outbound calls so far, the keys
\* collected, whether the last call failed, whether it is still running
Started(b) == [b |-> b, calls |-> <<>>, keys |-> <<>>, failed |-> FALSE, running |-> FALSE]

\* one outbound call; the failAt-th call of the request fails
Issue(st, call, failAt) ==
    [st EXCEPT !.calls = Append(@, call), !.failed = (Len(st.calls) + 1 = failAt)]

\* get_s3_client after its session check: GET /data/session
GetS3Client(st, failAt) == Issue(st, [api |-> "GET /data/session"], failAt)

\* the delete_objects calls on the collected keys, until one fails
RECURSIVE DeleteAll(_, _, _)
DeleteAll(st, batches, failAt) ==
    IF batches = <<>> \/ st.failed THEN st
    ELSE LET st1 == Issue(st, [api |-> "delete_objects", keys |-> Head(batches)], failAt)
         IN IF st1.failed THEN st1
            ELSE DeleteAll([st1 EXCEPT !.b = Remove(@, SeqToSet(Head(batches)))],
                           Tail(batches), failAt)

\* the body of rename-folder's loop over one page: copy, then remember the key
RECURSIVE CopyPage(_, _, _, _, _, _)
CopyPage(st, page, old_prefix, new_prefix, collect, failAt) ==
    IF page = <<>> \/ st.failed THEN st
    ELSE LET old_key == Head(page)
             relative_key == SubSeq(old_key, Len(old_prefix) + 1, Len(old_key))
             new_key == new_prefix \o relative_key
             st1 == Issue(st, [api |-> "copy_object", key |-> old_key, to |-> new_key],
                          failAt)
         IN IF ~StartsWith(old_key, old_prefix)
            THEN CopyPage(st, Tail(page), old_prefix, new_prefix, collect, failAt)
            ELSE IF st1.failed THEN st1
            ELSE CopyPage([st1 EXCEPT !.b = Put(@, new_key, st1.b[old_key]),
                                      !.keys = IF collect THEN Append(@, old_key) ELSE @],
                          Tail(page), old_prefix, new_prefix, collect, failAt)

\* paginator.paginate(Prefix=old_prefix) with the copies made page by page
RECURSIVE CopyScan(_, _, _, _, _, _, _)
CopyScan(st, old_prefix, new_prefix, after, collect, failAt, fuel) ==
    IF fuel = 0 THEN [st EXCEPT !.running = TRUE]
    ELSE LET st1 == Issue(st, [api |-> "list_objects_v2", prefix |-> old_prefix,
                               after |-> after], failAt)
             rest == KeysAfter(st1.b, old_prefix, after)
             page == Take(rest, PageSize)
             st2 == CopyPage(st1, page, old_prefix, new_prefix, collect, failAt)
         IN IF st1.failed THEN st1
            ELSE IF st2.failed \/ Len(rest) <= PageSize THEN st2
            ELSE CopyScan(st2, old_prefix, new_prefix, page[Len(page)], collect, failAt,
                          fuel - 1)

\* paginator.paginate(Prefix=prefix) collecting every key
RECURSIVE CollectScan(_, _, _, _, _)
CollectScan(st, prefix, after, failAt, fuel) ==
    IF fuel = 0 THEN [st EXCEPT !.running = TRUE]
    ELSE LET st1 == Issue(st, [api |-> "list_objects_v2", prefix |-> prefix,
                               after |-> after], failAt)
             rest == KeysAfter(st1.b, prefix, after)
             page == Take(rest, PageSize)
             st2 == [st1 EXCEPT !.keys = @ \o page]
         IN IF st1.failed THEN st1
            ELSE IF Len(rest) <= PageSize THEN st2
            ELSE CollectScan(st2, prefix, page[Len(page)], failAt, fuel - 1)

\* what a handler answers
Json(status, msg) == [status |-> status, msg |-> msg]

S3Error == Json(500, "S3 Error")

Unexpected == Json(500, "An unexpected error occurred")

\* a handler's result: the response, the outbound calls, the bucket after
Handled(resp, st) == [resp |-> resp, calls |-> st.calls, bucket |-> st.b]

\* the response of a handler whose try block ended in state st: the first call
\* is get_s3_client's, whose failure is re-raised as a plain Exception
Answer(st, ok) ==
    IF st.running THEN Handled(Json(0, "no response yet"), st)
    ELSE IF st.failed
    THEN Handled(IF Len(st.calls) = 1 THEN Unexpected ELSE S3Error, st)
    ELSE Handled(ok, st)

LoggedIn(sess) == "api_token" \in DOMAIN sess


\* a rename-folder that deletes what it copied although a copy failed
api_s3_rename_folder_DeletesCopied(old, new, sess, b, failAt) ==
    IF old = <<>> \/ new = <<>>
    THEN Handled(Json(400, "Missing old_prefix or new_prefix"), Started(b))
    ELSE LET old_prefix == WithSlash(old)
             new_prefix == WithSlash(new)
         IN IF old_prefix = new_prefix
            THEN Handled(Json(200, "Source and destination are the same."), Started(b))
            ELSE IF ~LoggedIn(sess) THEN Handled(Unexpected, Started(b))
            ELSE LET st1 == GetS3Client(Started(b), failAt)
                     st2 == CopyScan(st1, old_prefix, new_prefix, <<>>, TRUE, failAt, MaxPages)
                     st3 == DeleteAll([st2 EXCEPT !.failed = FALSE],
                                      DeleteBatches(st2.keys, 0), failAt)
                 IN IF st1.failed THEN Answer(st1, Unexpected)
                    ELSE IF st2.running THEN Answer(st2, Unexpected)
                    ELSE IF st2.failed THEN Answer([st3 EXCEPT !.failed = TRUE], Unexpected)
                    ELSE Answer(st3, Json(200, "Successfully renamed folder"))

\* a rename-folder that compares the prefixes before normalising them
api_s3_rename_folder_RawCompare(old, new, sess, b, failAt) ==
    IF old = <<>> \/ new = <<>>
    THEN Handled(Json(400, "Missing old_prefix or new_prefix"), Started(b))
    ELSE LET old_prefix == WithSlash(old)
             new_prefix == WithSlash(new)
         IN IF old = new
            THEN Handled(Json(200, "Source and destination are the same."), Started(b))
            ELSE IF ~LoggedIn(sess) THEN Handled(Unexpected, Started(b))
            ELSE LET st1 == GetS3Client(Started(b), failAt)
                     st2 == CopyScan(st1, old_prefix, new_prefix, <<>>, TRUE, failAt, MaxPages)
                     st3 == DeleteAll(st2, DeleteBatches(st2.keys, 0), failAt)
                 IN IF st1.failed THEN Answer(st1, Unexpected)
                    ELSE IF st2.failed \/ st2.running THEN Answer(st2, Unexpected)
                    ELSE Answer(st3, Json(200, "Successfully renamed folder"))

\* api_s3_rename_folder
api_s3_rename_folder(old, new, sess, b, failAt) ==
    IF old = <<>> \/ new = <<>>
    THEN Handled(Json(400, "Missing old_prefix or new_prefix"), Started(b))
    ELSE LET old_prefix == WithSlash(old)
             new_prefix == WithSlash(new)
         IN IF old_prefix = new_prefix
            THEN Handled(Json(200, "Source and destination are the same."), Started(b))
            ELSE IF ~LoggedIn(sess) THEN Handled(Unexpected, Started(b))
            ELSE LET st1 == GetS3Client(Started(b), failAt)
                     st2 == CopyScan(st1, old_prefix, new_prefix, <<>>, TRUE, failAt, MaxPages)
                     st3 == DeleteAll(st2, DeleteBatches(st2.keys, 0), failAt)
                 IN IF st1.failed THEN Answer(st1, Unexpected)
                    ELSE IF st2.failed \/ st2.running THEN Answer(st2, Unexpected)
                    ELSE Answer(st3, Json(200, "Successfully renamed folder"))

\* api_s3_copy_folder
api_s3_copy_folder(source, destination, sess, b, failAt) ==
    IF source = <<>> \/ destination = <<>>
    THEN Handled(Json(400, "Missing source_folder or destination_folder"), Started(b))
    ELSE LET source_folder == WithSlash(source)
             destination_folder == WithSlash(destination)
         IN IF source_folder = destination_folder
            THEN Handled(Json(200, "Source and destination are the same."), Started(b))
            ELSE IF ~LoggedIn(sess) THEN Handled(Unexpected, Started(b))
            ELSE LET st1 == GetS3Client(Started(b), failAt)
                     st2 == CopyScan(st1, source_folder, destination_folder, <<>>, FALSE,
                                     failAt, MaxPages)
                 IN IF st1.failed THEN Answer(st1, Unexpected)
                    ELSE Answer(st2, Json(200, "Successfully copied folder"))

\* a delete-folder that lists the prefix as given, without the trailing slash
api_s3_delete_folder_RawPrefix(given, sess, b, failAt) ==
    IF given = <<>> THEN Handled(Json(400, "Missing folder prefix"), Started(b))
    ELSE IF ~LoggedIn(sess) THEN Handled(Unexpected, Started(b))
    ELSE LET st1 == GetS3Client(Started(b), failAt)
             st2 == CollectScan(st1, given, <<>>, failAt, MaxPages)
             st3 == DeleteAll(st2, DeleteBatches(st2.keys, 0), failAt)
         IN IF st1.failed THEN Answer(st1, Unexpected)
            ELSE IF st2.failed \/ st2.running THEN Answer(st2, Unexpected)
            ELSE IF st2.keys = <<>>
            THEN Answer(st2, Json(200, "Folder is already empty or does not exist."))
            ELSE Answer(st3, Json(200, "Successfully deleted folder"))

\* api_s3_delete_folder
api_s3_delete_folder(given, sess, b, failAt) ==
    IF given = <<>> THEN Handled(Json(400, "Missing folder prefix"), Started(b))
    ELSE LET prefix == WithSlash(given)
         IN IF ~LoggedIn(sess) THEN Handled(Unexpected, Started(b))
            ELSE LET st1 == GetS3Client(Started(b), failAt)
                     st2 == CollectScan(st1, prefix, <<>>, failAt, MaxPages)
                     st3 == DeleteAll(st2, DeleteBatches(st2.keys, 0), failAt)
                 IN IF st1.failed THEN Answer(st1, Unexpected)
                    ELSE IF st2.failed \/ st2.running THEN Answer(st2, Unexpected)
                    ELSE IF st2.keys = <<>>
                    THEN Answer(st2, Json(200, "Folder is already empty or does not exist."))
                    ELSE Answer(st3, Json(200, "Successfully deleted folder"))

\* with Delimiter='/': a key with a slash after the prefix is rolled up into
\* the common prefix that ends at that slash, any other key is listed itself
HasSlashAfter(key, prefix) == \E i \in (Len(prefix) + 1)..Len(key) : key[i] = Slash

RolledUp(key, prefix) ==
    IF ~HasSlashAfter(key, prefix) THEN key
    ELSE LET i == CHOOSE i \in (Len(prefix) + 1)..Len(key) :
                        /\ key[i] = Slash
                        /\ \A j \in (Len(prefix) + 1)..(i - 1) : key[j] # Slash
         IN SubSeq(key, 1, i)

\* what a delimited listing still has to return after `after`
EntriesAfter(b, prefix, after) ==
    SortedKeys({e \in {RolledUp(k, prefix) : k \in {k \in DOMAIN b : StartsWith(k, prefix)}} :
                    after = <<>> \/ StrLess(after, e)})

\* paginator.paginate(Prefix=prefix, Delimiter='/') collecting every entry
RECURSIVE DelimitedScan(_, _, _, _, _)
DelimitedScan(st, prefix, after, failAt, fuel) ==
    IF fuel = 0 THEN [st EXCEPT !.running = TRUE]
    ELSE LET st1 == Issue(st, [api |-> "list_objects_v2", prefix |-> prefix,
                               delimiter |-> Slash, after |-> after], failAt)
             rest == EntriesAfter(st1.b, prefix, after)
             page == Take(rest, PageSize)
             st2 == [st1 EXCEPT !.keys = @ \o page]
         IN IF st1.failed THEN st1
            ELSE IF Len(rest) <= PageSize THEN st2
            ELSE DelimitedScan(st2, prefix, page[Len(page)], failAt, fuel - 1)

RECURSIVE Folders(_, _)
Folders(entries, prefix) ==
    IF entries = <<>> THEN <<>>
    ELSE (IF HasSlashAfter(Head(entries), prefix) THEN <<Head(entries)>> ELSE <<>>)
         \o Folders(Tail(entries), prefix)

\* file entries that keep the key equal to the prefix
RECURSIVE FilesWithPlaceholder(_, _, _)
FilesWithPlaceholder(entries, prefix, b) ==
    IF entries = <<>> THEN <<>>
    ELSE (IF ~HasSlashAfter(Head(entries), prefix)
          THEN <<[key |-> Head(entries), size |-> b[Head(entries)].size]>> ELSE <<>>)
         \o FilesWithPlaceholder(Tail(entries), prefix, b)

\* the file entries: every listed key but the one equal to the prefix
\* (last_modified is carried with the object and is not modelled)
RECURSIVE Files(_, _, _)
Files(entries, prefix, b) ==
    IF entries = <<>> THEN <<>>
    ELSE (IF ~HasSlashAfter(Head(entries), prefix) /\ Head(entries) # prefix
          THEN <<[key |-> Head(entries), size |-> b[Head(entries)].size]>> ELSE <<>>)
         \o Files(Tail(entries), prefix, b)

\* api_s3_list
api_s3_list(prefix, sess, b, failAt) ==
    IF ~LoggedIn(sess) THEN Handled(Unexpected, Started(b))
    ELSE LET st1 == GetS3Client(Started(b), failAt)
             st2 == DelimitedScan(st1, prefix, <<>>, failAt, MaxPages)
         IN IF st1.failed THEN Answer(st1, Unexpected)
            ELSE Answer(st2, [status |-> 200, msg |-> "listing",
                              files |-> Files(st2.keys, prefix, b),
                              folders |-> Folders(st2.keys, prefix)])

(***************************************************************************)
(* The dashboard's storage requests as a state machine: one request        *)
(* against a bucket in any state over a small universe of keys.            *)
(***************************************************************************)
\* "a", "a/", "a/a", "a/b", "a/a/", "a/a/a", "aa", "b/a"
KeyUniverse ==
    { <<97>>, <<97, 47>>, <<97, 47, 97>>, <<97, 47, 98>>, <<97, 47, 97, 47>>,
      <<97, 47, 97, 47, 97>>, <<97, 97>>, <<98, 47, 97>> }

\* absent or empty, "a", "a/", "a/a", "a/a/", "b", "b/"
RequestPrefixes ==
    { <<>>, <<97>>, <<97, 47>>, <<97, 47, 97>>, <<97, 47, 97, 47>>, <<98>>, <<98, 47>> }

Stored(key) == [data |-> key, size |-> Len(key)]

Buckets == {[k \in keys |-> Stored(k)] : keys \in SUBSET KeyUniverse}

\* the session select_project leaves after a successful login
DashboardSession ==
    select_project(P1, [result |-> "ok", token |-> Str("TOKEN")],
                   AddConfig(JsonDumpObj(UserFile(P1, Str("alice"), Str("pw1"), ApiUrl)),
                             NoFile).file,
                   NoSession).session

S3Init ==
    /\ configFile = AddConfig(JsonDumpObj(UserFile(P1, Str("alice"), Str("pw1"), ApiUrl)),
                              NoFile).file
    /\ disk = {}
    /\ env = [EPIC_API_TOKEN |-> PyNone, EPIC_ACTIVE_PROJECT |-> PyNone]
    /\ session \in {NoSession, DashboardSession}
    /\ last = Idle
    /\ bucket \in Buckets
    /\ s3last = IdleS3
    /\ s3_bucket_stats_cache = <<>>
    /\ threads = <<>>
    /\ pin = IdlePure
    /\ pout = IdlePure

\* a handler served: its response, its calls and the bucket it leaves
Served(op, args, failAt, h) ==
    /\ s3last = IdleS3
    /\ s3last' = [op |-> op, args |-> args, failAt |-> failAt, resp |-> h.resp,
                  calls |-> h.calls, before |-> bucket]
    /\ bucket' = h.bucket
    /\ UNCHANGED <<cliVars, pureVars, s3_bucket_stats_cache, threads>>

S3RenameFolder ==
    \E old \in RequestPrefixes, new \in RequestPrefixes, failAt \in 0..MaxFailAt :
        Served("rename-folder", <<old, new>>, failAt,
               api_s3_rename_folder(old, new, session, bucket, failAt))

S3CopyFolder ==
    \E source \in RequestPrefixes, destination \in RequestPrefixes, failAt \in 0..MaxFailAt :
        Served("copy-folder", <<source, destination>>, failAt,
               api_s3_copy_folder(source, destination, session, bucket, failAt))

S3DeleteFolder ==
    \E prefix \in RequestPrefixes, failAt \in 0..MaxFailAt :
        Served("delete-folder", <<prefix>>, failAt,
               api_s3_delete_folder(prefix, session, bucket, failAt))

S3List ==
    \E prefix \in RequestPrefixes, failAt \in 0..MaxFailAt :
        Served("list", <<prefix>>, failAt, api_s3_list(prefix, session, bucket, failAt))

S3Next == S3RenameFolder \/ S3CopyFolder \/ S3DeleteFolder \/ S3List

SpecS3 == S3Init /\ [][S3Next]_vars

(***************************************************************************)
(* The batched delete of rename-folder and delete-folder on a list of n    *)
(* collected keys, the i-th collected key being i.                         *)
(***************************************************************************)
MaxCollected == 2001

CollectedKeys(n) == [i \in 1..n |-> i]

BatchInit ==
    /\ configFile = NoFile
    /\ disk = {}
    /\ env = [EPIC_API_TOKEN |-> PyNone, EPIC_ACTIVE_PROJECT |-> PyNone]
    /\ session = NoSession
    /\ last = Idle
    /\ bucket = <<>>
    /\ s3last = IdleS3
    /\ s3_bucket_stats_cache = <<>>
    /\ threads = <<>>
    /\ pin \in {[kind |-> "collected", n |-> n] : n \in 0..MaxCollected}
    /\ pout = IdlePure

\* `if objects_to_delete:` and the loop of delete_objects calls in rename-folder
RenameFolderDeletes ==
    /\ pout = IdlePure
    /\ pout' = [kind |-> "deletes", op |-> "rename-folder",
                calls |-> IF CollectedKeys(pin.n) # <<>>
                          THEN DeleteBatches(CollectedKeys(pin.n), 0) ELSE <<>>]
    /\ UNCHANGED <<cliVars, s3Vars, pin>>

\* `if not objects_to_delete: return` and the loop in delete-folder
DeleteFolderDeletes ==
    /\ pout = IdlePure
    /\ pout' = [kind |-> "deletes", op |-> "delete-folder",
                calls |-> IF CollectedKeys(pin.n) = <<>>
                          THEN <<>> ELSE DeleteBatches(CollectedKeys(pin.n), 0)]
    /\ UNCHANGED <<cliVars, s3Vars, pin>>

BatchNext == RenameFolderDeletes \/ DeleteFolderDeletes

SpecBatch == BatchInit /\ [][BatchNext]_vars

(***************************************************************************)
(* list-instances on any array of instances the catalog returns.            *)
(***************************************************************************)
MaxInstances == 3

ReturnedInstances == {Instance(name, vcpus) : name \in {<<1>>, <<1, 2>>, <<2>>}, vcpus \in {2, 4}}

ReturnedArrays ==
    UNION {[1..n -> ReturnedInstances] : n \in 0..MaxInstances}

CatalogInit ==
    /\ configFile = NoFile
    /\ disk = {}
    /\ env = [EPIC_API_TOKEN |-> Str("TOKEN"), EPIC_ACTIVE_PROJECT |-> P1]
    /\ session = NoSession
    /\ last = Idle
    /\ bucket = <<>>
    /\ s3last = IdleS3
    /\ s3_bucket_stats_cache = <<>>
    /\ threads = <<>>
    /\ pin \in {[kind |-> "instances", items |-> l] : l \in ReturnedArrays}
    /\ pout = IdlePure

\* list_instances on a 200 response carrying pin.items
ListReturnedInstances ==
    /\ pout = IdlePure
    /\ pout' = [kind |-> "listed",
                result |-> ListInstances(env.EPIC_API_TOKEN, PyNone,
                                         ResponseWith(200, "ok", pin.items))]
    /\ UNCHANGED <<cliVars, s3Vars, pin>>

CatalogNext == ListReturnedInstances

SpecCatalog == CatalogInit /\ [][CatalogNext]_vars

(***************************************************************************)
(* job list on any results array the API returns.                          *)
(***************************************************************************)
MaxJobs == 3

\* objects with any of the three fields, and a value that is not an object
ReturnedJobs ==
    {JobObject([f \in fields |-> CASE f = "uuid" -> "abc" [] f = "name" -> "job1"
                                   [] OTHER -> "RUNNING"]) :
        fields \in SUBSET {"uuid", "name", "status"}}
    \cup {JobScalar("oops")}

ReturnedResults == UNION {[1..n -> ReturnedJobs] : n \in 0..MaxJobs}

JobsInit ==
    /\ configFile = NoFile
    /\ disk = {}
    /\ env = [EPIC_API_TOKEN |-> Str("TOKEN"), EPIC_ACTIVE_PROJECT |-> P1]
    /\ session = NoSession
    /\ last = Idle
    /\ bucket = <<>>
    /\ s3last = IdleS3
    /\ s3_bucket_stats_cache = <<>>
    /\ threads = <<>>
    /\ pin \in {[kind |-> "results", items |-> l] : l \in ReturnedResults}
    /\ pout = IdlePure

\* list_jobs on a 200 response whose results are pin.items
ListReturnedJobs ==
    /\ pout = IdlePure
    /\ pout' = [kind |-> "jobs listed",
                result |-> ListJobs(env.EPIC_API_TOKEN, PyNone,
                                    ResponseWith(200, "ok", pin.items))]
    /\ UNCHANGED <<cliVars, s3Vars, pin>>

JobsNext == ListReturnedJobs

SpecJobs == JobsInit /\ [][JobsNext]_vars

(***************************************************************************)
(* get_config and save_config on any config mapping.                       *)
(***************************************************************************)
MaxProjects == 2

MaxResaves == 2

\* the project entries add_config builds from the users' files
ProjectConfigs ==
    {ProjectConfig(JsonLoadObj(t)) :
        t \in {u \in ManualUserFiles : AddConfig(u, NoFile).file # NoFile}}

\* dicts of up to MaxProjects projects, in any insertion order
ConfigMappings ==
    {d \in UNION {[1..n -> [k : {P1, P2, P3}, v : ProjectConfigs]] : n \in 0..MaxProjects} :
        \A i, j \in 1..Len(d) : d[i].k = d[j].k => i = j}

\* a file edited by hand so that a project appears twice
HandEditedFiles ==
    {[exists |-> TRUE,
      text |-> <<[key |-> P1, val |-> JsonDumpObj(c1)], [key |-> P2, val |-> JsonDumpObj(c2)],
                 [key |-> P1, val |-> JsonDumpObj(c2)]>>] :
        c1 \in ProjectConfigs, c2 \in ProjectConfigs}

ConfigInit ==
    /\ configFile \in {NoFile} \cup HandEditedFiles
    /\ disk = {}
    /\ env = [EPIC_API_TOKEN |-> PyNone, EPIC_ACTIVE_PROJECT |-> PyNone]
    /\ session = NoSession
    /\ last = Idle
    /\ bucket = <<>>
    /\ s3last = IdleS3
    /\ s3_bucket_stats_cache = <<>>
    /\ threads = <<>>
    /\ pin = IdlePure
    /\ pout = IdlePure

\* save_config(m)
SaveMapping ==
    \E m \in ConfigMappings :
        /\ configFile' = SaveConfig(m)
        /\ pin' = [kind |-> "saved", m |-> m]
        /\ pout' = IdlePure
        /\ UNCHANGED <<disk, env, session, last, s3Vars>>

\* get_config()
LoadConfig ==
    /\ pout' = [kind |-> "loaded", m |-> GetConfig(configFile)]
    /\ UNCHANGED <<cliVars, s3Vars, pin>>

\* save_config(get_config()), for the n-th time in a row
ResaveLoaded ==
    LET n == IF pout.kind = "resaved" THEN pout.n + 1 ELSE 1
    IN /\ n <= MaxResaves
       /\ configFile' = SaveConfig(GetConfig(configFile))
       /\ pout' = [kind |-> "resaved", n |-> n, before |-> GetConfig(configFile),
                   file |-> configFile]
       /\ UNCHANGED <<disk, env, session, last, s3Vars, pin>>

ConfigNext == SaveMapping \/ LoadConfig \/ ResaveLoaded

SpecConfig == ConfigInit /\ [][ConfigNext]_vars

(***************************************************************************)
(* The bucket-size statistics and their cache (src/epiccli_ui/app.py):     *)
(* several requests in a row against one dashboard process.                *)
(***************************************************************************)
RECURSIVE TotalSize(_, _)
TotalSize(keys, b) == IF keys = <<>> THEN 0 ELSE b[Head(keys)].size + TotalSize(Tail(keys), b)

StatsAnswer(stats) ==
    [status |-> 200, msg |-> "stats", total_size |-> stats.total_size,
     total_objects |-> stats.total_objects]

CacheSet(cache, project_id, stats) ==
    [p \in DOMAIN cache \cup {project_id} |-> IF p = project_id THEN stats ELSE cache[p]]

\* a bucket-size that never looks into the cache
api_s3_bucket_size_Uncached(sess, b, cache, failAt) ==
    LET project_id == Get(sess, "project_id")
    IN IF ~Truthy(project_id)
       THEN [h |-> Handled(Json(400, "Project not in session"), Started(b)), cache |-> cache]
       ELSE IF ~LoggedIn(sess) THEN [h |-> Handled(Unexpected, Started(b)), cache |-> cache]
       ELSE LET st1 == GetS3Client(Started(b), failAt)
                st2 == CollectScan(st1, <<>>, <<>>, failAt, MaxPages)
                stats == [total_size |-> TotalSize(st2.keys, b),
                          total_objects |-> Len(st2.keys)]
            IN IF st1.failed THEN [h |-> Answer(st1, Unexpected), cache |-> cache]
               ELSE IF st2.failed \/ st2.running
               THEN [h |-> Answer(st2, Unexpected), cache |-> cache]
               ELSE [h |-> Answer(st2, StatsAnswer(stats)),
                     cache |-> CacheSet(cache, project_id, stats)]

\* a bucket-size that stores what it has counted when a listing page fails
api_s3_bucket_size_CachesPartial(sess, b, cache, failAt) ==
    LET project_id == Get(sess, "project_id")
    IN IF ~Truthy(project_id)
       THEN [h |-> Handled(Json(400, "Project not in session"), Started(b)), cache |-> cache]
       ELSE IF project_id \in DOMAIN cache
       THEN [h |-> Handled(StatsAnswer(cache[project_id]), Started(b)), cache |-> cache]
       ELSE IF ~LoggedIn(sess) THEN [h |-> Handled(Unexpected, Started(b)), cache |-> cache]
       ELSE LET st1 == GetS3Client(Started(b), failAt)
                st2 == CollectScan(st1, <<>>, <<>>, failAt, MaxPages)
                stats == [total_size |-> TotalSize(st2.keys, b),
                          total_objects |-> Len(st2.keys)]
            IN IF st1.failed THEN [h |-> Answer(st1, Unexpected), cache |-> cache]
               ELSE IF st2.failed \/ st2.running
               THEN [h |-> Answer(st2, Unexpected),
                     cache |-> CacheSet(cache, project_id, stats)]
               ELSE [h |-> Answer(st2, StatsAnswer(stats)),
                     cache |-> CacheSet(cache, project_id, stats)]

\* api_s3_bucket_size: the handler's result and the cache it leaves
api_s3_bucket_size(sess, b, cache, failAt) ==
    LET project_id == Get(sess, "project_id")
    IN IF ~Truthy(project_id)
       THEN [h |-> Handled(Json(400, "Project not in session"), Started(b)), cache |-> cache]
       ELSE IF project_id \in DOMAIN cache
       THEN [h |-> Handled(StatsAnswer(cache[project_id]), Started(b)), cache |-> cache]
       ELSE IF ~LoggedIn(sess) THEN [h |-> Handled(Unexpected, Started(b)), cache |-> cache]
       ELSE LET st1 == GetS3Client(Started(b), failAt)
                st2 == CollectScan(st1, <<>>, <<>>, failAt, MaxPages)
                stats == [total_size |-> TotalSize(st2.keys, b),
                          total_objects |-> Len(st2.keys)]
            IN IF st1.failed THEN [h |-> Answer(st1, Unexpected), cache |-> cache]
               ELSE IF st2.failed \/ st2.running
               THEN [h |-> Answer(st2, Unexpected), cache |-> cache]
               ELSE [h |-> Answer(st2, StatsAnswer(stats)),
                     cache |-> CacheSet(cache, project_id, stats)]

MaxRequests == 4

\* a config file with two projects whose stored password logs in
TwoProjects ==
    AddConfig(JsonDumpObj(UserFile(P2, Str("bob"), Str("pw2"), ApiUrl)),
              AddConfig(JsonDumpObj(UserFile(P1, Str("alice"), Str("pw1"), ApiUrl)),
                        NoFile).file).file

\* subsets of "a/a", "a/b", "b/a" as the bucket of project p1
CacheBuckets ==
    {[k \in keys |-> Stored(k)] : keys \in SUBSET {<<97, 47, 97>>, <<97, 47, 98>>, <<98, 47, 97>>}}

\* the bucket of project p2, which these behaviours only read
OtherBucket == [k \in {<<98, 47, 97>>} |-> Stored(k)]

\* the bucket the session's credentials open
BucketOf(sess, b) == IF Get(sess, "project_id") = P2 THEN OtherBucket ELSE b

Requests == IF s3last = IdleS3 THEN 0 ELSE s3last.n

CacheInit ==
    /\ configFile = TwoProjects
    /\ disk = {}
    /\ env = [EPIC_API_TOKEN |-> PyNone, EPIC_ACTIVE_PROJECT |-> PyNone]
    /\ session = NoSession
    /\ last = Idle
    /\ bucket \in CacheBuckets
    /\ s3last = IdleS3
    /\ s3_bucket_stats_cache = <<>>
    /\ threads = <<>>
    /\ pin = IdlePure
    /\ pout = IdlePure

\* select_project answered with a token: the browser's session changes project
CacheLogin ==
    \E project_name \in {P1, P2} :
        /\ session' = select_project(project_name, [result |-> "ok", token |-> Str("TOKEN")],
                                     configFile, session).session
        /\ session' # session
        /\ UNCHANGED <<configFile, disk, env, last, s3Vars, pureVars>>

\* one more request served by the same process
ServedAgain(op, args, failAt, h) ==
    /\ Requests < MaxRequests
    /\ s3last' = [op |-> op, args |-> args, failAt |-> failAt, resp |-> h.resp,
                  calls |-> h.calls, before |-> bucket, n |-> Requests + 1]
    /\ UNCHANGED <<cliVars, pureVars, threads>>

CacheBucketSize ==
    \E failAt \in 0..3 :
        LET r == api_s3_bucket_size(session, BucketOf(session, bucket),
                                    s3_bucket_stats_cache, failAt)
        IN /\ ServedAgain("bucket-size", <<>>, failAt, r.h)
           /\ s3_bucket_stats_cache' = r.cache
           /\ UNCHANGED bucket

\* folder requests on p1's bucket between the bucket-size requests
CacheRenameFolder ==
    \E args \in {<< <<97, 47>>, <<98, 47>> >>, << <<98, 47>>, <<97, 47>> >>} :
        LET h == api_s3_rename_folder(args[1], args[2], session, bucket, 0)
        IN /\ Get(session, "project_id") # P2
           /\ ServedAgain("rename-folder", args, 0, h)
           /\ bucket' = h.bucket
           /\ UNCHANGED s3_bucket_stats_cache

CacheCopyFolder ==
    LET h == api_s3_copy_folder(<<97, 47>>, <<98, 47>>, session, bucket, 0)
    IN /\ Get(session, "project_id") # P2
       /\ ServedAgain("copy-folder", << <<97, 47>>, <<98, 47>> >>, 0, h)
       /\ bucket' = h.bucket
       /\ UNCHANGED s3_bucket_stats_cache

CacheDeleteFolder ==
    LET h == api_s3_delete_folder(<<97, 47>>, session, bucket, 0)
    IN /\ Get(session, "project_id") # P2
       /\ ServedAgain("delete-folder", << <<97, 47>> >>, 0, h)
       /\ bucket' = h.bucket
       /\ UNCHANGED s3_bucket_stats_cache

CacheNext ==
    \/ CacheLogin
    \/ CacheBucketSize
    \/ CacheRenameFolder
    \/ CacheCopyFolder
    \/ CacheDeleteFolder

SpecCache == CacheInit /\ [][CacheNext]_vars

(***************************************************************************)
(* Properties of the command-line client, checked under Spec               *)
(***************************************************************************)
\* the project-scoped commands that resolve their project with get_active_project
ResolvingCommands ==
    {"user create", "user delete", "project get", "project update-spend", "billing",
     "keys", "catalog list-applications", "catalog list-instances", "job create",
     "job list", "job get", "job cancel", "job tail"}

ScopedCommands == ResolvingCommands \cup {"init"}

\* C1: an API client operation that finds EPIC_API_TOKEN absent or empty echoes
\* the token error and returns without having issued any network call.
C1_NoTokenNoCall ==
    (last.op /\ ~Truthy(env.EPIC_API_TOKEN))
        => /\ last.net = <<>>
           /\ last.crash = ""
           /\ last.out \in {TokenError, AdminTokenError}

\* the operations C1_NoTokenNoCall has been seen to cover
C1_Witness ==
    /\ last.op
    /\ last.cmd = "user delete"
    /\ env.EPIC_API_TOKEN = Str("")
    /\ last.out = AdminTokenError

\* C2: a project-scoped command whose project name is not a key of the config
\* mapping echoes the project-not-found error and issues no network call.
C2_UnknownProjectNoCall ==
    (/\ last.cmd \in ScopedCommands
     /\ last.project # PyNone
     /\ ~DictHas(GetConfig(configFile), last.project))
        => /\ last.net = <<>>
           /\ ~last.op
           /\ last.crash = ""
           /\ Len(last.out) = 1
           /\ last.out[1].msg \in {"Error: Project not found.",
                                   "Error: Project configuration not found."}
           /\ last.out[1].arg = last.project

\* a command named a project that is not configured, beside one that is
C2_Witness ==
    /\ last.cmd = "job list"
    /\ last.project = P3
    /\ DictHas(GetConfig(configFile), P1)
    /\ Truthy(env.EPIC_API_TOKEN)
    /\ last.out = <<MsgA("Error: Project configuration not found.", P3)>>

\* C3: get_active_project returns a given (non-empty) argument whatever the
\* environment holds; without one it returns a set, non-empty EPIC_ACTIVE_PROJECT;
\* without either it echoes the missing-project error and yields None, and the
\* command then reads no config and issues no network call.
C3_ActiveProject ==
    last.cmd \in ResolvingCommands
        => /\ Truthy(last.arg) => last.project = last.arg
           /\ (~Truthy(last.arg) /\ Truthy(env.EPIC_ACTIVE_PROJECT))
                => last.project = env.EPIC_ACTIVE_PROJECT
           /\ (~Truthy(last.arg) /\ ~Truthy(env.EPIC_ACTIVE_PROJECT))
                => /\ last.project = PyNone
                   /\ last.out = <<Msg("Error: No project specified")>>
                   /\ ~last.cfgRead
                   /\ ~last.op
                   /\ last.net = <<>>

\* an argument that differs from the environment's project won
C3_Witness ==
    /\ last.cmd = "billing"
    /\ last.arg = P2
    /\ env.EPIC_ACTIVE_PROJECT = P1
    /\ last.project = P2
    /\ last.op

\* every value stored in a file the program wrote
ObjTextValues(text) == {JsonDec(text[f]) : f \in DOMAIN text}

FileValues ==
    UNION {ObjTextValues(configFile.text[i].val) \cup {configFile.text[i].key} :
              i \in 1..Len(configFile.text)}
    \cup UNION {ObjTextValues(f.text) : f \in disk}

\* C4: no file the program has written (the config file, a <username>.json)
\* holds a bearer token.
C4_NoTokenOnDisk == FileValues \cap Tokens = {}

\* a token is in the environment and in the dashboard session, beside both files
C4_Witness ==
    /\ env.EPIC_API_TOKEN \in Tokens
    /\ "api_token" \in DOMAIN session
    /\ session["api_token"] \in Tokens
    /\ Len(configFile.text) = 2
    /\ disk # {}

(***************************************************************************)
(* Properties of the dashboard's storage requests, checked under SpecS3    *)
(***************************************************************************)
\* a folder prefix with its trailing slash
AsFolder(prefix) == IF prefix[Len(prefix)] = Slash THEN prefix ELSE prefix \o <<Slash>>

\* the request went through: the session was logged in and no call failed
WentThrough ==
    /\ LoggedIn(session)
    /\ s3last.failAt = 0 \/ s3last.failAt > Len(s3last.calls)

DeleteCalls == {i \in 1..Len(s3last.calls) : s3last.calls[i].api = "delete_objects"}

\* C5: a rename-folder request whose old and new prefix (both given) are equal
\* once each has its trailing slash makes no outbound call at all, leaves the
\* bucket as it was and answers 200 with a message.
C5_SameFolderNoCalls ==
    (/\ s3last.op = "rename-folder"
     /\ s3last.args[1] # <<>> /\ s3last.args[2] # <<>>
     /\ AsFolder(s3last.args[1]) = AsFolder(s3last.args[2]))
    => /\ s3last.calls = <<>>
       /\ s3last.resp.status = 200
       /\ s3last.resp.msg = "Source and destination are the same."
       /\ bucket = s3last.before

\* rename-folder of "a" to "a/" by a logged-in session, with objects under "a/"
C5_Witness ==
    /\ s3last.op = "rename-folder"
    /\ s3last.args = << <<97>>, <<97, 47>> >>
    /\ LoggedIn(session)
    /\ {<<97, 47, 97>>, <<97, 47, 98>>} \subseteq DOMAIN s3last.before
    /\ s3last.calls = <<>>
    /\ s3last.resp.status = 200

\* C7: a successful listing of a prefix has no entry, file or folder, equal to
\* the prefix, and its files are exactly the other objects directly under the
\* prefix (no slash after it), each once, with its size.
C7_ListWithoutPlaceholder ==
    (s3last.op = "list" /\ s3last.resp.status = 200)
    => LET prefix == s3last.args[1]
           files == s3last.resp.files
           direct == {k \in DOMAIN s3last.before :
                        /\ StartsWith(k, prefix)
                        /\ k # prefix
                        /\ \A i \in (Len(prefix) + 1)..Len(k) : k[i] # Slash}
       IN /\ \A i \in 1..Len(files) : files[i].key # prefix
          /\ \A i \in 1..Len(s3last.resp.folders) : s3last.resp.folders[i] # prefix
          /\ {files[i].key : i \in 1..Len(files)} = direct
          /\ Len(files) = Cardinality(direct)
          /\ \A i \in 1..Len(files) : files[i].size = s3last.before[files[i].key].size

\* a listing of "a/" with the placeholder "a/", two files and a nested object
C7_Witness ==
    /\ s3last.op = "list"
    /\ s3last.args = << <<97, 47>> >>
    /\ s3last.resp.status = 200
    /\ {<<97, 47>>, <<97, 47, 97>>, <<97, 47, 98>>, <<97, 47, 97, 47, 97>>}
           \subseteq DOMAIN s3last.before
    /\ Len(s3last.resp.files) = 2
    /\ Len(s3last.calls) > 2

\* C8: delete-folder never deletes or changes a key outside the folder; when no
\* object is under the folder it makes no delete call and, having gone
\* through, answers 200 "already empty"; when objects are under it and the
\* request goes through, exactly the keys under the folder are deleted.
C8_DeleteFolder ==
    (s3last.op = "delete-folder" /\ s3last.args[1] # <<>>)
    => LET prefix == AsFolder(s3last.args[1])
           under == {k \in DOMAIN s3last.before : StartsWith(k, prefix)}
       IN /\ \A k \in DOMAIN s3last.before \ under :
                k \in DOMAIN bucket /\ bucket[k] = s3last.before[k]
          /\ DOMAIN bucket \subseteq DOMAIN s3last.before
          /\ \A i \in DeleteCalls : SeqToSet(s3last.calls[i].keys) \subseteq under
          /\ under = {} => DeleteCalls = {}
          /\ (under = {} /\ WentThrough)
                => /\ s3last.resp.status = 200
                   /\ s3last.resp.msg = "Folder is already empty or does not exist."
          /\ (under # {} /\ WentThrough)
                => /\ s3last.resp.status = 200
                   /\ DOMAIN bucket = DOMAIN s3last.before \ under

\* delete-folder of "a" went through: three objects under "a/" are gone, the
\* objects "a" and "aa" beside the folder are kept
C8_Witness ==
    /\ s3last.op = "delete-folder"
    /\ s3last.args = << <<97>> >>
    /\ WentThrough
    /\ DOMAIN s3last.before = {<<97>>, <<97, 47>>, <<97, 47, 97>>, <<97, 47, 97, 47, 97>>,
                               <<97, 97>>}
    /\ DOMAIN bucket = {<<97>>, <<97, 97>>}
    /\ s3last.resp.status = 200

CopyCalls == {i \in 1..Len(s3last.calls) : s3last.calls[i].api = "copy_object"}

\* C18: in a rename-folder every delete call comes after every listing and
\* every copy; when a delete call is made, every copy succeeded, every
\* object that was under the old folder is among the copied keys, and the
\* keys of the delete calls are exactly the copied keys; when a copy fails
\* no delete call is made and every key of the bucket is still there; and
\* after a rename that went through none of the copied keys is left.
C18_CopyThenDelete ==
    s3last.op = "rename-folder"
    => LET calls == s3last.calls
           copied == {calls[i].key : i \in CopyCalls \ {s3last.failAt}}
           deleted == UNION {SeqToSet(calls[i].keys) : i \in DeleteCalls}
       IN /\ \A i \in DeleteCalls : \A j \in 1..Len(calls) :
                calls[j].api \in {"copy_object", "list_objects_v2"} => j < i
          /\ DeleteCalls # {}
                => /\ s3last.failAt \notin CopyCalls
                   /\ deleted = copied
                   /\ \A k \in DOMAIN s3last.before :
                         StartsWith(k, AsFolder(s3last.args[1])) => k \in copied
          /\ s3last.failAt \in CopyCalls
                => /\ DeleteCalls = {}
                   /\ DOMAIN s3last.before \subseteq DOMAIN bucket
          /\ (DeleteCalls # {} /\ s3last.resp.status = 200)
                => DOMAIN bucket \cap copied = {}

\* rename-folder of "a" to "b" whose third copy, on the second page, fails
\* after two copies were made: no delete call, the three originals remain
C18_Witness ==
    /\ s3last.op = "rename-folder"
    /\ s3last.args = << <<97>>, <<98>> >>
    /\ {<<97, 47, 97>>, <<97, 47, 98>>, <<97, 47, 97, 47, 97>>} \subseteq DOMAIN s3last.before
    /\ s3last.failAt = 6
    /\ s3last.failAt \in CopyCalls
    /\ Cardinality(CopyCalls) = 3
    /\ DeleteCalls = {}
    /\ {<<97, 47, 97>>, <<97, 47, 98>>, <<97, 47, 97, 47, 97>>} \subseteq DOMAIN bucket
    /\ s3last.resp.status = 500

\* C19: a copy-folder whose prefixes (both given) differ once each has its
\* trailing slash makes no delete call and leaves every object that was
\* under the source folder in place and unchanged; having gone through, it
\* answers 200 and every such object is found, unchanged, at the
\* destination folder followed by its path relative to the source folder;
\* and when a copy fails it is the last call, the answer is an error and the
\* copies made before it are in the bucket.
C19_CopyFolder ==
    (/\ s3last.op = "copy-folder"
     /\ s3last.args[1] # <<>> /\ s3last.args[2] # <<>>
     /\ AsFolder(s3last.args[1]) # AsFolder(s3last.args[2]))
    => LET src_prefix == AsFolder(s3last.args[1])
           dst_prefix == AsFolder(s3last.args[2])
           under == {k \in DOMAIN s3last.before : StartsWith(k, src_prefix)}
           Moved(k) == dst_prefix \o SubSeq(k, Len(src_prefix) + 1, Len(k))
       IN /\ DeleteCalls = {}
          /\ \A k \in under : k \in DOMAIN bucket /\ bucket[k] = s3last.before[k]
          /\ WentThrough
                => /\ s3last.resp.status = 200
                   /\ \A k \in under :
                         /\ Moved(k) \in DOMAIN bucket
                         /\ bucket[Moved(k)] = s3last.before[k]
          /\ s3last.failAt \in CopyCalls
                => /\ s3last.failAt = Len(s3last.calls)
                   /\ s3last.resp.status = 500
                   /\ \A i \in CopyCalls \ {s3last.failAt} :
                         s3last.calls[i].to \in DOMAIN bucket

\* C25: after a rename-folder that went through and answered 200, with
\* prefixes (both given) that differ once each has its trailing slash,
\* every object that was under the old folder is found, with the content
\* it had, at the new folder followed by its path relative to the old one.
C25_RenameKeepsContent ==
    (/\ s3last.op = "rename-folder"
     /\ s3last.args[1] # <<>> /\ s3last.args[2] # <<>>
     /\ AsFolder(s3last.args[1]) # AsFolder(s3last.args[2])
     /\ WentThrough
     /\ s3last.resp.status = 200)
    => LET old_prefix == AsFolder(s3last.args[1])
           new_prefix == AsFolder(s3last.args[2])
       IN \A k \in DOMAIN s3last.before :
             StartsWith(k, old_prefix)
                => LET moved == new_prefix \o SubSeq(k, Len(old_prefix) + 1, Len(k))
                   IN moved \in DOMAIN bucket /\ bucket[moved] = s3last.before[k]

\* C27: a copy-folder or rename-folder none of whose calls fails, with
\* prefixes (both given) that differ once each has its trailing slash,
\* comes to its response, and its copy calls are one for each object that
\* was under the source folder when the request began, and no other.
C27_OneCopyPerObject ==
    (/\ s3last.op \in {"copy-folder", "rename-folder"}
     /\ s3last.args[1] # <<>> /\ s3last.args[2] # <<>>
     /\ AsFolder(s3last.args[1]) # AsFolder(s3last.args[2])
     /\ WentThrough)
    => LET under == {k \in DOMAIN s3last.before : StartsWith(k, AsFolder(s3last.args[1]))}
       IN /\ s3last.resp.status = 200
          /\ {s3last.calls[i].key : i \in CopyCalls} = under
          /\ Cardinality(CopyCalls) = Cardinality(under)

\* C29: a dashboard request (billing, jobs, cancel job, job tail, storage)
\* of a session without api_token makes no outbound call and is answered
\* with an error response.
C29_NoTokenRefused ==
    ("resp" \in DOMAIN s3last /\ ~LoggedIn(session))
    => /\ s3last.calls = <<>>
       /\ s3last.resp.status >= 400

\* C30: a bucket-size request that is not answered with the statistics
\* (the credentials could not be fetched, a page of the listing failed)
\* leaves the cache as it was; the cache changes only by the entry of the
\* session's project, written by a request none of whose calls failed and
\* holding the count and the total size of every object of the bucket; and
\* a request for a project without an entry starts the enumeration anew.
C30_CachedOnlyWhenComplete ==
    [][(s3last' # s3last /\ s3last'.op = "bucket-size")
       => LET project_id == Get(session, "project_id")
              b == BucketOf(session, bucket)
              cache == s3_bucket_stats_cache
          IN /\ s3last'.resp.status # 200 => s3_bucket_stats_cache' = cache
             /\ s3_bucket_stats_cache' # cache
                  => /\ s3last'.resp.status = 200
                     /\ s3last'.failAt = 0 \/ s3last'.failAt > Len(s3last'.calls)
                     /\ project_id \notin DOMAIN cache
                     /\ DOMAIN s3_bucket_stats_cache' = DOMAIN cache \cup {project_id}
                     /\ s3_bucket_stats_cache'[project_id].total_objects
                            = Cardinality(DOMAIN b)
                     /\ \E keys \in [1..Cardinality(DOMAIN b) -> DOMAIN b] :
                            /\ \A i, j \in DOMAIN keys : keys[i] = keys[j] => i = j
                            /\ s3_bucket_stats_cache'[project_id].total_size
                                   = TotalSize(keys, b)
             /\ (LoggedIn(session) /\ project_id \notin DOMAIN cache)
                  => /\ s3last'.calls # <<>>
                     /\ s3last'.calls[1].api = "GET /data/session"
      ]_vars

\* the second page of the listing failed and nothing was cached for the
\* project, after an earlier request
C30_Witness ==
    /\ s3last.op = "bucket-size"
    /\ s3last.n >= 2
    /\ s3last.failAt = 3
    /\ Len(s3last.calls) = 3
    /\ s3last.resp.status >= 400
    /\ LoggedIn(session)
    /\ Get(session, "project_id") \notin DOMAIN s3_bucket_stats_cache

(***************************************************************************)
(* Property of the batched delete, checked under SpecBatch                 *)
(***************************************************************************)
RECURSIVE Concat(_)
Concat(seqs) == IF seqs = <<>> THEN <<>> ELSE Head(seqs) \o Concat(Tail(seqs))

\* C6: the n collected keys go out in ceil(n/1000) delete calls, each of 1 to
\* 1000 keys, which laid end to end are the collected keys in order (every key
\* in exactly one call); 1001 keys take exactly two calls.
C6_BatchesOfThousand ==
    pout.kind = "deletes"
    => /\ Len(pout.calls) = (pin.n + 999) \div 1000
       /\ \A i \in 1..Len(pout.calls) : Len(pout.calls[i]) >= 1 /\ Len(pout.calls[i]) <= 1000
       /\ Concat(pout.calls) = CollectedKeys(pin.n)
       /\ pin.n = 1001 => Len(pout.calls) = 2

\* 1001 collected keys: a call of 1000 keys and a call of one
C6_Witness ==
    /\ pout.kind = "deletes"
    /\ pin.n = 1001
    /\ Len(pout.calls) = 2
    /\ Len(pout.calls[1]) = 1000
    /\ pout.calls[2] = <<1001>>

(***************************************************************************)
(* Property of list-instances, checked under SpecCatalog                   *)
(***************************************************************************)
Occurrences(seq, x) == Cardinality({i \in 1..Len(seq) : seq[i] = x})

\* C9: whatever the order of the returned array, the instance lines follow the
\* header in ascending order of instance-type name, and every returned
\* instance is printed as many times as it was returned; an empty array
\* prints no instance.
C9_SortedEachOnce ==
    pout.kind = "listed"
    => LET out == pout.result.out
           printed == [i \in 1..(Len(out) - 1) |-> out[i + 1].arg]
       IN /\ Len(printed) = Len(pin.items)
          /\ \A i \in 1..(Len(printed) - 1) :
                ~StrLess(printed[i + 1].instance_type, printed[i].instance_type)
          /\ \A x \in ReturnedInstances : Occurrences(printed, x) = Occurrences(pin.items, x)
          /\ pout.result.crash = ""

\* an array returned in descending order, two entries sharing a name
C9_Witness ==
    /\ pout.kind = "listed"
    /\ pin.items = <<Instance(<<2>>, 2), Instance(<<1, 2>>, 4), Instance(<<1, 2>>, 2)>>
    /\ Len(pout.result.out) = 4
    /\ pout.result.out[4].arg = Instance(<<2>>, 2)

(***************************************************************************)
(* Property of the config store, checked under SpecConfig                  *)
(***************************************************************************)
\* C10: save_config(get_config()) leaves a file that loads to the mapping it
\* loaded to before (same project keys, same field values), and from the
\* second application on leaves the file itself unchanged; get_config() after
\* save_config(m), with or without such re-saves in between, returns m.
C10_RoundTrip ==
    /\ pout.kind = "resaved"
         => /\ DictEq(GetConfig(configFile), pout.before)
            /\ pout.n >= 2 => configFile = pout.file
    /\ (pout.kind = "loaded" /\ pin.kind = "saved") => DictEq(pout.m, pin.m)

\* a hand-edited file with a repeated project, re-saved twice
C10_Witness ==
    /\ pout.kind = "resaved"
    /\ pout.n = 2
    /\ pin = IdlePure
    /\ DictKeys(GetConfig(configFile)) = {P1, P2}
    /\ DictGet(GetConfig(configFile), P1).password = PyNone

(***************************************************************************)
(* Property of job list, checked under SpecJobs                            *)
(***************************************************************************)
\* C11: for a 200 response with a non-empty results array, job list prints the
\* header and then, in response order, one line per entry: for an object its
\* uuid, name and status with 'N/A' for each missing field, for any other
\* value a warning; nothing aborts the listing, so there are as many entry
\* lines as entries (none for an empty array).
C11_JobLines ==
    pout.kind = "jobs listed"
    => LET out == pout.result.out
           n == Len(pin.items)
           Shown(o, f) == IF f \in DOMAIN o THEN o[f] ELSE "N/A"
       IN /\ pout.result.crash = ""
          /\ n = 0 => out = <<Msg("No jobs found.")>>
          /\ n > 0 =>
               /\ Len(out) = n + 1
               /\ out[1] = Msg("Current Jobs:")
               /\ \A i \in 1..n :
                     IF pin.items[i].isdict
                     THEN /\ out[i + 1].msg = "ID | Name | Status"
                          /\ out[i + 1].arg = <<Shown(pin.items[i].v, "uuid"),
                                                Shown(pin.items[i].v, "name"),
                                                Shown(pin.items[i].v, "status")>>
                     ELSE /\ out[i + 1].msg = "Warning: Received malformed job entry"
                          /\ out[i + 1].arg = pin.items[i].v

\* a malformed entry between a complete job and a job with only a name
C11_Witness ==
    /\ pout.kind = "jobs listed"
    /\ pin.items = <<JobObject([uuid |-> "abc", name |-> "job1", status |-> "RUNNING"]),
                     JobScalar("oops"), JobObject([name |-> "job1"])>>
    /\ pout.result.out[2] = MsgA("ID | Name | Status", <<"abc", "job1", "RUNNING">>)
    /\ pout.result.out[3].msg = "Warning: Received malformed job entry"
    /\ pout.result.out[4].arg = <<"N/A", "job1", "N/A">>

(***************************************************************************)
(* Further properties of the command-line client, checked under Spec       *)
(***************************************************************************)
Assignments ==
    {"export EPIC_API_TOKEN=", "$env:EPIC_API_TOKEN=",
     "export EPIC_ACTIVE_PROJECT=", "$env:EPIC_ACTIVE_PROJECT="}

Printed(msgs) == {last.out[i].msg : i \in 1..Len(last.out)} \cap msgs

\* C12: when the identity provider refuses init's request with
\* NotAuthorizedException, init prints the one line 'Authentication failed:
\* Invalid username or password.'; an assignment of the token or of the active
\* project is printed only when the provider returned a token, and then one of
\* each is printed, carrying that token and the project name.
C12_InitAuthFailure ==
    last.cmd = "init"
    => /\ (last.answers # <<>> /\ last.answers[1].result = "NotAuthorizedException")
             => last.out = <<Msg("Authentication failed: Invalid username or password.")>>
       /\ Printed(Assignments) # {}
             => (last.answers # <<>> /\ last.answers[1].result = "ok")
       /\ (last.answers # <<>> /\ last.answers[1].result = "ok")
             => \E i, j \in 1..Len(last.out) :
                    /\ last.out[i].msg \in {"export EPIC_API_TOKEN=", "$env:EPIC_API_TOKEN="}
                    /\ last.out[i].arg = last.answers[1].token
                    /\ last.out[j].msg \in {"export EPIC_ACTIVE_PROJECT=",
                                            "$env:EPIC_ACTIVE_PROJECT="}
                    /\ last.out[j].arg = last.arg

\* init of a configured project, refused by the identity provider
C12_Witness ==
    /\ last.cmd = "init"
    /\ last.arg = P1
    /\ last.net = <<Call("IDP", "initiate_auth")>>
    /\ last.answers[1].result = "NotAuthorizedException"
    /\ last.out = <<Msg("Authentication failed: Invalid username or password.")>>

\* the answer is a transport failure, an error status or a body that is not JSON
FailedAnswer(r) == r.kind = "conn_error" \/ r.status >= 400 \/ r.shape = "not_json"

\* the answer is a 200 list of projects
ListAnswer(r) == ~FailedAnswer(r) /\ r.shape = "ok"

\* C13: in project get and project update-spend a request on /projects/{id}
\* (GET for get, PATCH for update-spend) is the second call of the command,
\* made after GET /projects was answered with a list naming the project; when
\* the list request fails, only that one call is made and the error is
\* reported; when the list does not name the project, only that one call is
\* made and not-found is reported.  (A 200 answer whose JSON has no results is
\* neither case: only the one call is made.)
C13_ListThenAct ==
    (last.cmd \in {"project get", "project update-spend"} /\ last.net # <<>>)
    => /\ last.net[1] = Call("GET", "/projects")
       /\ Len(last.net) <= 2
       /\ Len(last.net) = 2
            => /\ last.net[2] = Call(IF last.cmd = "project get" THEN "GET" ELSE "PATCH",
                                     "/projects/{project_name}")
               /\ ListAnswer(last.answers[1])
               /\ \E i \in 1..Len(last.answers[1].items) :
                      last.answers[1].items[i] = last.project
       /\ FailedAnswer(last.answers[1])
            => /\ Len(last.net) = 1
               /\ last.out \in {<<Msg("Error fetching project details")>>,
                                <<Msg("Error updating spend limit")>>}
       /\ (/\ ListAnswer(last.answers[1])
           /\ \A i \in 1..Len(last.answers[1].items) : last.answers[1].items[i] # last.project)
            => /\ Len(last.net) = 1
               /\ last.out = <<Msg("Error: Project not found on the server.")>>
       /\ (~FailedAnswer(last.answers[1]) /\ ~ListAnswer(last.answers[1]))
            => Len(last.net) = 1

\* update-spend of p1: the list names p2 and p1, then the PATCH is sent
C13_Witness ==
    /\ last.cmd = "project update-spend"
    /\ last.project = P1
    /\ last.net = <<Call("GET", "/projects"), Call("PATCH", "/projects/{project_name}")>>
    /\ last.answers[1] = ResponseWith(200, "ok", <<P2, P1>>)

\* C14: create-user reports every response status: 201 writes the new user's
\* file and reports success, 400 (with a JSON body) reports the validation
\* message, 409 reports that the user may already exist, and any other status
\* is reported as an error; the file is written only on 201.
C14_EveryStatusReported ==
    (last.cmd = "user create" /\ last.net # <<>> /\ last.answers[1].kind = "response")
    => LET r == last.answers[1]
           said == {last.out[i].msg : i \in 1..Len(last.out)}
       IN /\ r.status = 201 => (last.wrote # {} /\ "User created successfully." \in said)
          /\ (r.status = 400 /\ r.shape # "not_json")
                => "Error: <validation message>" \in said
          /\ r.status = 409 => "User may already exist." \in said
          /\ r.status \notin {201, 400, 409} => "Error creating user" \in said
          /\ last.wrote # {} => r.status = 201

\* C17: every failure outcome of every command is recovered at the command
\* boundary: whatever the API or the identity provider answered, no
\* command ends with an exception that escaped it.
C17_NothingEscapes == last.net # <<>> => last.crash = ""

\* C23 as stated: a cancel answered 204 prints the success line, and a
\* cancel answered with any other status prints the status code and the
\* raw body.
C23_Non204RawBody ==
    (last.cmd = "job cancel" /\ last.net # <<>> /\ last.answers[1].kind = "response")
    => LET r == last.answers[1]
       IN /\ r.status = 204 => last.out = <<Msg("Job cancelled successfully.")>>
          /\ r.status # 204
                => last.out = <<MsgA("Received status code when canceling job.", <<r.status>>),
                                Msg("<response.text>")>>

\* C23: a cancel answered 204 prints the success line; answered with any
\* other status below 400 it prints the status code and the raw body;
\* answered with a 4xx or 5xx status it prints the error (and detail) of
\* the JSON body, or 'Error canceling job', and not the raw body.
C23_CancelReports ==
    (last.cmd = "job cancel" /\ last.net # <<>> /\ last.answers[1].kind = "response")
    => LET r == last.answers[1]
       IN /\ r.status = 204 => last.out = <<Msg("Job cancelled successfully.")>>
          /\ (r.status # 204 /\ r.status < 400)
                => last.out = <<MsgA("Received status code when canceling job.", <<r.status>>),
                                Msg("<response.text>")>>
          /\ r.status >= 400
                => /\ last.out \in {<<Msg("Error: <error>")>>,
                                    <<Msg("Error: <error>"), Msg("Detail: <detail>")>>,
                                    <<Msg("Error canceling job")>>}
                   /\ last.crash = ""

\* a cancel answered 200: the status code and the body are printed
C23_Witness ==
    /\ last.cmd = "job cancel"
    /\ last.net # <<>>
    /\ last.answers[1].kind = "response"
    /\ last.answers[1].status = 200
    /\ last.out = <<MsgA("Received status code when canceling job.", <<200>>),
                    Msg("<response.text>")>>

\* C24: a tail answered with a JSON object whose logs list is empty or
\* missing prints the 'No logs found' line and nothing else; answered with
\* a non-empty list it prints the header and then one '[timestamp] message'
\* line per log event, in the order of the response; answered with an
\* error (no connection, a 4xx or 5xx status, a body that is not JSON) it
\* prints an error message and never the 'No logs found' line.
C24_TailReports ==
    (last.cmd = "job tail" /\ last.net # <<>>)
    => LET r == last.answers[1]
           said == {last.out[i].msg : i \in 1..Len(last.out)}
       IN /\ (~RaisesRequestException(r) /\ r.shape \in {"ok", "no_logs_member"}
                 /\ r.items = <<>>)
                => last.out = <<Msg("No logs found for job")>>
          /\ (~RaisesRequestException(r) /\ r.shape = "ok" /\ r.items # <<>>)
                => last.out = <<Msg("Logs for job:")>>
                               \o [i \in 1..Len(r.items) |->
                                      MsgA("[timestamp] message", r.items[i])]
          /\ (RaisesRequestException(r) \/ r.shape = "not_json")
                => /\ "No logs found for job" \notin said
                   /\ "Logs for job:" \notin said
                   /\ said \cap {"Error: <error>", "Error getting job logs"} # {}

\* a tail answered 200 without a logs member
C24_Witness ==
    /\ last.cmd = "job tail"
    /\ last.net # <<>>
    /\ last.answers[1].shape = "no_logs_member"
    /\ last.out = <<Msg("No logs found for job")>>

\* the session holds none of api_token, api_url and project_id, or all three
SessionWhole(sess) ==
    \/ DOMAIN sess \cap {"api_token", "api_url", "project_id"} = {}
    \/ {"api_token", "api_url", "project_id"} \subseteq DOMAIN sess

\* C28: the dashboard session holds none of api_token, api_url and
\* project_id or all three; a step changes it only as a select_project that
\* was redirected to the dashboard, and then to the project just selected,
\* the token that login was answered with and the API URL configured for
\* that project; a select_project redirected to the index page (unknown
\* project, login refused) leaves the session as it was.
C28_SessionConsistent ==
    /\ []SessionWhole(session)
    /\ [][/\ (session' # session
              => /\ last'.cmd = "select_project"
                 /\ last'.out = <<Msg("redirect dashboard")>>
                 /\ session'.project_id = last'.arg
                 /\ session'.api_token = last'.answers[1].token
                 /\ session'.api_url = AppGetConfig(configFile, last'.arg).epic_api_url)
          /\ (last'.cmd = "select_project" /\ last'.out = <<Msg("redirect index")>>
              => session' = session)]_vars

\* a login to one project was refused by the identity provider while the
\* session still holds the login to another project
C28_Witness ==
    /\ last.cmd = "select_project"
    /\ last.out = <<Msg("redirect index")>>
    /\ last.net # <<>>
    /\ SessionWhole(session)
    /\ session # NoSession
    /\ session.project_id # last.arg

CopyObject(st, source_key, destination_key, failAt) ==
    LET st1 == Issue(st, [api |-> "copy_object", key |-> source_key,
                          to |-> destination_key], failAt)
    IN IF st1.failed \/ source_key \notin DOMAIN st.b
       THEN [st1 EXCEPT !.failed = TRUE]
       ELSE [st1 EXCEPT !.b = Put(@, destination_key, st.b[source_key])]

\* delete_object: succeeds whether or not the key exists
DeleteObject(st, key, failAt) ==
    LET st1 == Issue(st, [api |-> "delete_object", key |-> key], failAt)
    IN IF st1.failed THEN st1 ELSE [st1 EXCEPT !.b = Remove(@, {key})]

S3ErrorRename == Json(500, "S3 Error during rename. The original file may still exist.")

UnexpectedRename == Json(500, "An unexpected error occurred during rename")

\* api_s3_delete
api_s3_delete(key, sess, b, failAt) ==
    IF key = <<>> THEN Handled(Json(400, "Missing file key"), Started(b))
    ELSE IF ~LoggedIn(sess) THEN Handled(Unexpected, Started(b))
    ELSE LET st1 == GetS3Client(Started(b), failAt)
             st2 == DeleteObject(st1, key, failAt)
         IN IF st1.failed THEN Answer(st1, Unexpected)
            ELSE Answer(st2, Json(200, "Successfully deleted"))

\* a rename that deletes the original whether or not the copy was made
api_s3_rename_DeletesAnyway(old_key, new_key, sess, b, failAt) ==
    IF old_key = <<>> \/ new_key = <<>>
    THEN Handled(Json(400, "Missing old_key or new_key"), Started(b))
    ELSE IF ~LoggedIn(sess) THEN Handled(UnexpectedRename, Started(b))
    ELSE LET st1 == GetS3Client(Started(b), failAt)
             st2 == CopyObject(st1, old_key, new_key, failAt)
             st3 == DeleteObject([st2 EXCEPT !.failed = FALSE], old_key, failAt)
         IN IF st1.failed THEN Handled(UnexpectedRename, st1)
            ELSE IF st3.failed THEN Handled(S3ErrorRename, st3)
            ELSE Handled(Json(200, "Successfully renamed"), st3)

\* api_s3_rename: copy_object, then delete_object, one handler for both
api_s3_rename(old_key, new_key, sess, b, failAt) ==
    IF old_key = <<>> \/ new_key = <<>>
    THEN Handled(Json(400, "Missing old_key or new_key"), Started(b))
    ELSE IF ~LoggedIn(sess) THEN Handled(UnexpectedRename, Started(b))
    ELSE LET st1 == GetS3Client(Started(b), failAt)
             st2 == CopyObject(st1, old_key, new_key, failAt)
             st3 == DeleteObject(st2, old_key, failAt)
         IN IF st1.failed THEN Handled(UnexpectedRename, st1)
            ELSE IF st2.failed THEN Handled(S3ErrorRename, st2)
            ELSE IF st3.failed THEN Handled(S3ErrorRename, st3)
            ELSE Handled(Json(200, "Successfully renamed"), st3)

\* api_s3_copy
api_s3_copy(source_key, destination_key, sess, b, failAt) ==
    IF source_key = <<>> \/ destination_key = <<>>
    THEN Handled(Json(400, "Missing source_key or destination_key"), Started(b))
    ELSE IF ~LoggedIn(sess) THEN Handled(Unexpected, Started(b))
    ELSE LET st1 == GetS3Client(Started(b), failAt)
             st2 == CopyObject(st1, source_key, destination_key, failAt)
         IN IF st1.failed THEN Answer(st1, Unexpected)
            ELSE Answer(st2, Json(200, "Successfully copied"))

NotLoggedIn == Json(401, "Not logged in")

ApiRequestFailed == Json(500, "API request failed")

\* the bodies the API answers with: a JSON object, or JSON of another type
Bodies == {"object", "array"}

\* api_billing: the project's details, then the billing limits; .get is
\* called on both bodies only after both were fetched
api_billing(sess, project_body, billing_body, failAt) ==
    IF ~LoggedIn(sess) THEN Handled(NotLoggedIn, Started(<<>>))
    ELSE LET st1 == Issue(Started(<<>>), [api |-> "GET /projects/{project_id}"], failAt)
             st2 == Issue(st1, [api |-> "GET /billing/limits"], failAt)
         IN IF st1.failed THEN Handled(ApiRequestFailed, st1)
            ELSE IF st2.failed THEN Handled(ApiRequestFailed, st2)
            ELSE IF project_body # "object" \/ billing_body # "object"
            THEN Handled(Unexpected, st2)
            ELSE Handled(Json(200, "spend_limit, current_spend"), st2)

\* api_jobs
api_jobs(sess, body, failAt) ==
    IF ~LoggedIn(sess) THEN Handled(NotLoggedIn, Started(<<>>))
    ELSE LET st1 == Issue(Started(<<>>), [api |-> "GET /job"], failAt)
         IN IF st1.failed THEN Handled(ApiRequestFailed, st1)
            ELSE IF body # "object" THEN Handled(Unexpected, st1)
            ELSE Handled(Json(200, "jobs"), st1)

\* api_cancel_job
api_cancel_job(job_uuid, sess, failAt) ==
    IF ~LoggedIn(sess) THEN Handled(NotLoggedIn, Started(<<>>))
    ELSE LET st1 == Issue(Started(<<>>), [api |-> "POST /job/{job_uuid}/cancel"], failAt)
         IN IF st1.failed THEN Handled(ApiRequestFailed, st1)
            ELSE Handled(Json(200, "Job cancellation requested"), st1)

\* api_job_tail: the body is passed on whatever its type
api_job_tail(job_uuid, sess, failAt) ==
    IF ~LoggedIn(sess) THEN Handled(NotLoggedIn, Started(<<>>))
    ELSE LET st1 == Issue(Started(<<>>), [api |-> "GET /job/{job_uuid}/tail"], failAt)
         IN IF st1.failed THEN Handled(ApiRequestFailed, st1)
            ELSE Handled(Json(200, "tail"), st1)

(***************************************************************************)
(* One operation at a time: a command of the client from a shell whose     *)
(* project is configured, or a request to the dashboard                    *)
(***************************************************************************)
RequestKeys == {<<>>, <<97, 47, 97>>, <<97, 47, 98>>, <<98, 47, 97>>}

OperationBuckets ==
    {b \in Buckets : DOMAIN b \subseteq {<<97, 47>>, <<97, 47, 97>>, <<97, 47, 98>>,
                                         <<97, 47, 97, 47, 97>>, <<98, 47, 97>>}}

\* no command is run from this shell
NoShell == [Idle EXCEPT !.cmd = "no shell"]

\* the dashboard is not running
NoDashboard == [op |-> "no dashboard"]

OperationInit ==
    /\ configFile = AddConfig(JsonDumpObj(UserFile(P1, Str("alice"), Str("pw1"), ApiUrl)),
                              NoFile).file
    /\ disk = {}
    /\ s3_bucket_stats_cache = <<>>
    /\ threads = <<>>
    /\ pin = IdlePure
    /\ pout = IdlePure
    /\ \/ /\ env \in [EPIC_API_TOKEN : TokenValues, EPIC_ACTIVE_PROJECT : {PyNone, P1}]
          /\ session = NoSession
          /\ last = Idle
          /\ bucket = <<>>
          /\ s3last = NoDashboard
       \/ /\ env = [EPIC_API_TOKEN |-> PyNone, EPIC_ACTIVE_PROJECT |-> PyNone]
          /\ session \in {NoSession, DashboardSession}
          /\ last = NoShell
          /\ bucket \in OperationBuckets
          /\ s3last = IdleS3

S3Delete ==
    \E key \in RequestKeys, failAt \in 0..2 :
        Served("delete", <<key>>, failAt, api_s3_delete(key, session, bucket, failAt))

S3Rename ==
    \E old_key \in RequestKeys, new_key \in RequestKeys, failAt \in 0..3 :
        Served("rename", <<old_key, new_key>>, failAt,
               api_s3_rename(old_key, new_key, session, bucket, failAt))

S3Copy ==
    \E source_key \in RequestKeys, destination_key \in RequestKeys, failAt \in 0..2 :
        Served("copy", <<source_key, destination_key>>, failAt,
               api_s3_copy(source_key, destination_key, session, bucket, failAt))

\* a request that leaves the bucket alone
ServedByApi(op, args, failAt, h) == Served(op, args, failAt, [h EXCEPT !.bucket = bucket])

ApiBilling ==
    \E project_body \in Bodies, billing_body \in Bodies, failAt \in 0..2 :
        ServedByApi("billing", <<project_body, billing_body>>, failAt,
                    api_billing(session, project_body, billing_body, failAt))

ApiJobs ==
    \E body \in Bodies, failAt \in 0..1 :
        ServedByApi("jobs", <<body>>, failAt, api_jobs(session, body, failAt))

ApiCancelJob ==
    \E failAt \in 0..1 :
        ServedByApi("cancel_job", <<"id">>, failAt, api_cancel_job("id", session, failAt))

ApiJobTail ==
    \E failAt \in 0..1 :
        ServedByApi("job tail", <<"id">>, failAt, api_job_tail("id", session, failAt))

OperationNext ==
    \/ InitCommand
    \/ SelectProject
    \/ UserCreate
    \/ UserDelete
    \/ ProjectGet
    \/ ProjectUpdateSpend
    \/ Billing
    \/ Keys
    \/ CatalogListApplications
    \/ CatalogListInstances
    \/ JobCreate
    \/ JobList
    \/ JobGet
    \/ JobCancel
    \/ JobTail
    \/ S3RenameFolder
    \/ S3CopyFolder
    \/ S3DeleteFolder
    \/ S3List
    \/ S3Delete
    \/ S3Rename
    \/ S3Copy
    \/ ApiBilling
    \/ ApiJobs
    \/ ApiCancelJob
    \/ ApiJobTail

SpecOperation == OperationInit /\ [][OperationNext]_vars

(***************************************************************************)
(* Properties of one operation, checked under SpecOperation                *)
(***************************************************************************)
\* an answer of the API or of the identity provider that is a failed call
FailedCall(cmd, a) ==
    IF cmd \in {"init", "select_project"}
    THEN a.result \in {"NotAuthorizedException", "OtherClientError", "no_connection"}
    ELSE RaisesRequestException(a)

\* what a command says when a call of its own failed
FailureReports ==
    {"Error fetching billing information", "Error fetching applications",
     "Error fetching instance types", "Error fetching data session keys",
     "Error: <error>", "Error creating job", "Error canceling job",
     "Error listing jobs",
     "Error getting job details",
     "Error getting job logs", "Received status code when canceling job.",
     "Error fetching project details", "Error updating spend limit",
     "Error creating user", "Error: <validation message>", "User may already exist.",
     "Error deleting user", "User not found.",
     "Authentication failed: Invalid username or password.",
     "An unexpected error occurred", "redirect index"}

RenamedAgain(f) ==
    IF s3last.op = "rename"
    THEN api_s3_rename(s3last.args[1], s3last.args[2], session, s3last.before, f)
    ELSE api_s3_rename_folder(s3last.args[1], s3last.args[2], session, s3last.before, f)

\* C20: when a rename (of one object or of a folder) made its copies and
\* then failed at a delete call, its response is not a success response
\* and differs from the response the same request gets when one of its
\* copies fails.
C20_PartialFailureDistinct ==
    (/\ s3last.op \in {"rename", "rename-folder"}
     /\ s3last.failAt \in 1..Len(s3last.calls)
     /\ s3last.calls[s3last.failAt].api \in {"delete_object", "delete_objects"})
    => /\ s3last.resp.status # 200
       /\ \A f \in 1..MaxFailAt :
             LET h == RenamedAgain(f)
             IN (f <= Len(h.calls) /\ h.calls[f].api = "copy_object")
                   => h.resp # s3last.resp

(***************************************************************************)
(* Bucket-size requests served by concurrent threads of the dashboard      *)
(* (src/epiccli_ui/app.py, api_s3_bucket_size, one step per outbound call) *)
(***************************************************************************)
MaxWorkers == 2

Workers == 1..MaxWorkers

\* a request that has not reached the handler's first line
Arrived ==
    [pc |-> "start", total_size |-> 0, total_objects |-> 0, after |-> <<>>, seen |-> <<>>,
     enumerated |-> FALSE, resp |-> Json(0, "no response yet")]

Answered(t, resp) == [t EXCEPT !.pc = "done", !.resp = resp]

\* the project_id check and the look into the cache
bucket_size_enter(t, sess, cache) ==
    LET project_id == Get(sess, "project_id")
    IN IF ~Truthy(project_id) THEN Answered(t, Json(400, "Project not in session"))
       ELSE IF project_id \in DOMAIN cache THEN Answered(t, StatsAnswer(cache[project_id]))
       ELSE [t EXCEPT !.pc = "client"]

\* get_s3_client, then the counters are set to zero
bucket_size_client(t, sess, fails) ==
    IF ~LoggedIn(sess) \/ fails THEN Answered(t, Unexpected)
    ELSE [t EXCEPT !.pc = "listing", !.total_size = 0, !.total_objects = 0]

RECURSIVE SizeOf(_, _)
SizeOf(page, b) == IF page = <<>> THEN 0 ELSE b[Head(page)].size + SizeOf(Tail(page), b)

\* one page of the paginator and the loop's body for it
bucket_size_page(t, b, fails) ==
    LET rest == KeysAfter(b, <<>>, t.after)
        page == Take(rest, PageSize)
        counted == [t EXCEPT !.total_objects = @ + Len(page),
                             !.total_size = @ + SizeOf(page, b),
                             !.seen = @ \o [i \in 1..Len(page) |-> b[page[i]].size]]
    IN IF fails THEN Answered(t, S3Error)
       ELSE IF Len(rest) <= PageSize THEN [counted EXCEPT !.pc = "store"]
       ELSE [counted EXCEPT !.after = page[Len(page)]]

\* a store that updates the fields of an entry already there one at a time,
\* and is overtaken between the two
bucket_size_store_FieldByField(t, cache, project_id) ==
    LET stats == IF project_id \in DOMAIN cache
                 THEN [total_size |-> t.total_size,
                       total_objects |-> cache[project_id].total_objects]
                 ELSE [total_size |-> t.total_size, total_objects |-> t.total_objects]
    IN [t |-> [Answered(t, StatsAnswer(stats)) EXCEPT !.enumerated = TRUE],
        cache |-> CacheSet(cache, project_id, stats)]

\* stats = {...}; s3_bucket_stats_cache[project_id] = stats; return jsonify(stats)
bucket_size_store(t, cache, project_id) ==
    LET stats == [total_size |-> t.total_size, total_objects |-> t.total_objects]
    IN [t |-> [Answered(t, StatsAnswer(stats)) EXCEPT !.enumerated = TRUE],
        cache |-> CacheSet(cache, project_id, stats)]

\* objects of three different sizes
RaceKeys == {<<97>>, <<98, 47>>, <<97, 47, 97>>}

RaceBuckets == {[k \in keys |-> Stored(k)] : keys \in SUBSET RaceKeys}

RaceInit ==
    /\ configFile = AddConfig(JsonDumpObj(UserFile(P1, Str("alice"), Str("pw1"), ApiUrl)),
                              NoFile).file
    /\ disk = {}
    /\ env = [EPIC_API_TOKEN |-> PyNone, EPIC_ACTIVE_PROJECT |-> PyNone]
    /\ session = DashboardSession
    /\ last = Idle
    /\ bucket \in RaceBuckets
    /\ s3last = IdleS3
    /\ s3_bucket_stats_cache = <<>>
    /\ threads = [w \in Workers |-> Arrived]
    /\ pin = IdlePure
    /\ pout = IdlePure

\* thread w takes its next step
RaceStep(w, t) ==
    /\ threads' = [threads EXCEPT ![w] = t]
    /\ UNCHANGED <<cliVars, bucket, s3last, pureVars>>

RaceEnter(w) ==
    /\ threads[w].pc = "start"
    /\ RaceStep(w, bucket_size_enter(threads[w], session, s3_bucket_stats_cache))
    /\ UNCHANGED s3_bucket_stats_cache

RaceGetClient(w) ==
    /\ threads[w].pc = "client"
    /\ \E fails \in BOOLEAN : RaceStep(w, bucket_size_client(threads[w], session, fails))
    /\ UNCHANGED s3_bucket_stats_cache

RaceListPage(w) ==
    /\ threads[w].pc = "listing"
    /\ \E fails \in BOOLEAN : RaceStep(w, bucket_size_page(threads[w], bucket, fails))
    /\ UNCHANGED s3_bucket_stats_cache

RaceStore(w) ==
    /\ threads[w].pc = "store"
    /\ LET r == bucket_size_store(threads[w], s3_bucket_stats_cache,
                                  Get(session, "project_id"))
       IN /\ RaceStep(w, r.t)
          /\ s3_bucket_stats_cache' = r.cache

\* meanwhile an object is uploaded through a presigned URL
RaceUpload ==
    \E key \in RaceKeys \ DOMAIN bucket :
        /\ bucket' = Put(bucket, key, Stored(key))
        /\ UNCHANGED <<cliVars, s3last, s3_bucket_stats_cache, threads, pureVars>>

\* meanwhile a delete request is served
RaceDelete ==
    \E key \in DOMAIN bucket :
        /\ bucket' = api_s3_delete(key, session, bucket, 0).bucket
        /\ UNCHANGED <<cliVars, s3last, s3_bucket_stats_cache, threads, pureVars>>

RaceNext ==
    \/ \E w \in Workers : RaceEnter(w)
    \/ \E w \in Workers : RaceGetClient(w)
    \/ \E w \in Workers : RaceListPage(w)
    \/ \E w \in Workers : RaceStore(w)
    \/ RaceUpload
    \/ RaceDelete

SpecRace == RaceInit /\ [][RaceNext]_vars

(***************************************************************************)
(* Property of the racing bucket-size requests, checked under SpecRace     *)
(***************************************************************************)
RECURSIVE SumOf(_)
SumOf(sizes) == IF sizes = <<>> THEN 0 ELSE Head(sizes) + SumOf(Tail(sizes))

\* C21: whatever the interleaving of the threads and of the changes to the
\* bucket, the session's project has no entry in the cache, or its entry
\* is the answer of a thread that finished a whole enumeration: the number
\* and the summed sizes of all the objects that thread was listed.
C21_WholeEnumeration ==
    LET project_id == Get(session, "project_id")
    IN project_id \in DOMAIN s3_bucket_stats_cache
       => \E w \in Workers :
             /\ threads[w].pc = "done"
             /\ threads[w].enumerated
             /\ s3_bucket_stats_cache[project_id]
                    = [total_size |-> SumOf(threads[w].seen),
                       total_objects |-> Len(threads[w].seen)]

\* both threads missed the cache and enumerated; they counted differently
\* because the bucket changed, and the entry is the later thread's answer
C21_Witness ==
    /\ \A w \in Workers : threads[w].pc = "done" /\ threads[w].enumerated
    /\ threads[1].resp.total_objects = 3
    /\ threads[2].resp.total_objects = 1
    /\ s3_bucket_stats_cache[Get(session, "project_id")].total_objects = 1
    /\ s3_bucket_stats_cache[Get(session, "project_id")].total_size
           = threads[2].resp.total_size

(***************************************************************************)
(* config add, one file after another (src/epiccli/main.py, add_config)    *)
(***************************************************************************)
\* the files given to config add: those of ManualUserFiles, and files for
\* p1, p2 and p3 with other users, passwords and URLs
AddableFiles ==
    ManualUserFiles
    \cup { JsonDumpObj(UserFile(P2, Str("bob"), Str("pw2"), ApiUrl)),
           JsonDumpObj(UserFile(P2, Str("carol"), Str("pw3"), LocalUrl)),
           JsonDumpObj(UserFile(P3, Str("carol"), Str("pw3"), ApiUrl)),
           JsonDumpObj(UserFile(P1, PyNone, PyNone, ApiUrl)) }

AddInit ==
    /\ configFile \in {NoFile} \cup HandEditedFiles
    /\ disk = {}
    /\ env = [EPIC_API_TOKEN |-> PyNone, EPIC_ACTIVE_PROJECT |-> PyNone]
    /\ session = NoSession
    /\ last = Idle
    /\ bucket = <<>>
    /\ s3last = IdleS3
    /\ s3_bucket_stats_cache = <<>>
    /\ threads = <<>>
    /\ pin = IdlePure
    /\ pout = IdlePure

\* epic config add <user_json_file>
AddUserFile ==
    \E text \in AddableFiles :
        LET o == AddConfig(text, configFile)
        IN /\ configFile' = o.file
           /\ pin' = [kind |-> "config add", text |-> text]
           /\ pout' = [kind |-> "config added", before |-> configFile, out |-> o.out,
                       crash |-> o.crash]
           /\ UNCHANGED <<disk, env, session, last, s3Vars>>

AddNext == AddUserFile

SpecAdd == AddInit /\ [][AddNext]_vars

(***************************************************************************)
(* Property of config add, checked under SpecAdd                           *)
(***************************************************************************)
\* C22: after config add of a file naming project P, P's entry has exactly
\* the eight fields, each taken from the file (the region from the API
\* URL), whatever P's entry was before, the configured projects are those
\* configured before and P, and every other project's entry is as it was;
\* when the file names no project, or the command ends with an exception,
\* the config file is as it was.
C22_FullOverwrite ==
    pin.kind = "config add"
    => LET user_data == JsonLoadObj(pin.text)
           P == Get(user_data, "project_name")
           old == GetConfig(pout.before)
           new == GetConfig(configFile)
       IN /\ (~Truthy(P) \/ pout.crash # "") => configFile = pout.before
          /\ (Truthy(P) /\ pout.crash = "")
                => /\ DictHas(new, P)
                   /\ LET e == DictGet(new, P)
                      IN /\ DOMAIN e = {"user_pool_client_id", "user_pool_id",
                                        "data_bucket_name", "batch_job_queue_name",
                                        "epic_api_url", "username", "password", "region"}
                         /\ e.user_pool_client_id = Get(user_data, "UserPoolClientId")
                         /\ e.user_pool_id = Get(user_data, "UserPoolId")
                         /\ e.data_bucket_name = Get(user_data, "DataBucketName")
                         /\ e.batch_job_queue_name = Get(user_data, "BatchJobQueueName")
                         /\ e.epic_api_url = Get(user_data, "EpicApiUrl")
                         /\ e.username = Get(user_data, "username")
                         /\ e.password = Get(user_data, "password")
                         /\ e.region = <<Get(user_data, "EpicApiUrl")[3]>>
                   /\ DictKeys(new) = DictKeys(old) \cup {P}
                   /\ \A Q \in DictKeys(old) \ {P} : DictGet(new, Q) = DictGet(old, Q)

\* p1 was configured with a user and a password beside p2; a file for p1
\* with neither is added: p1's entry has neither, p2's entry is as it was
C22_Witness ==
    /\ pin.kind = "config add"
    /\ Get(JsonLoadObj(pin.text), "project_name") = P1
    /\ Get(JsonLoadObj(pin.text), "password") = PyNone
    /\ pout.crash = ""
    /\ DictHas(GetConfig(pout.before), P1)
    /\ DictHas(GetConfig(pout.before), P2)
    /\ DictGet(GetConfig(pout.before), P1).password = Str("pw1")
    /\ DictGet(GetConfig(configFile), P1).password = PyNone
    /\ DictGet(GetConfig(configFile), P2) = DictGet(GetConfig(pout.before), P2)

=============================================================================
